---------------------------- MODULE Spec2Model ----------------------------
(***************************************************************************)
(* The marketplace synchronisation engine of store-manager.                *)
(*                                                                         *)
(* The live pipeline is the one behind routes/update.py:                   *)
(*   update_inventory / update_orders  (routes/update.py)                  *)
(*     -> fetch_and_check_user         (src/handlers.py, the pre-flight)   *)
(*     -> background task update_items (src/handlers.py)                   *)
(*          -> fetch_ebay_listings / fetch_ebay_orders (src/ebay/handler.py)*)
(*          -> update_db               (src/handlers.py)                   *)
(* with the counters of src/db_firebase.py and src/utils.py.               *)
(*                                                                         *)
(* Dates are day numbers; a month has DaysPerMonth days, so a date d is a  *)
(* first-of-month exactly when d % DaysPerMonth = 0.                       *)
(***************************************************************************)
EXTENDS Integers, Sequences, FiniteSets, TLC

\* ------------------------------------------------------------ bounds
DaysPerMonth == 2
MaxDay == 3
MaxId == 2
MaxQty == 1
PageLen == 2
MaxSyncs == 2
\* the automatic limits of the user's plan (sub-limits.json, read at run time)
LimitListings == 2
LimitOrders == 2
\* history_limits[plan], the ceiling of a first-ever orders fetch
HistoryLimit == 3
\* MAX_WHILE_LOOP_DEPTH, read from the environment
MaxDepth == 2

NoDate == -1
Ids == 1..MaxId
Quantities == 0..MaxQty

inventory_key == "inventory"
sale_key == "orders"

VARIABLES
    today,        \* datetime.now(timezone.utc).date()
    isoZ,         \* whether datetime.fromisoformat of the runtime accepts a "Z" suffix (Python >= 3.11)
    sub,          \* TRUE iff user.subscriptions holds a "member" subscription
    numListings,  \* users/<uid>.store.numListings
    numOrders,    \* users/<uid>.store.numOrders
    inventory,    \* inventory/<uid>/ebay/<itemId>
    orders,       \* orders/<uid>/ebay/<transactionId>
    metaFetched,  \* users/<uid>.store.storeMeta.ebay.lastFetchedDate (the path that is read)
    ebayFetched,  \* users/<uid>.store.ebay.lastFetchedDate (the path set_last_fetched_date writes)
    resp,         \* the status code of the last answer of the update endpoint, 0 before any
    job,          \* the background task of the last accepted request: its locals, its
                  \* position (phase, ret) and the gateway calls it issued (removed, writes)
    nSyncs        \* requests made so far

vars == <<today, isoZ, sub, numListings, numOrders, inventory, orders,
          metaFetched, ebayFetched, resp, job, nSyncs>>

\* ------------------------------------------------------------ dates
\* utils.get_next_month_reset_date: the first of the month after `t`
get_next_month_reset_date(t) == ((t \div DaysPerMonth) + 1) * DaysPerMonth

IsFirstOfMonth(d) == d # NoDate /\ d % DaysPerMonth = 0

MonthOf(d) == d \div DaysPerMonth

\* The reset date as fetch_user_inventory_and_orders_count parses it
\* (utils.py:131-138): datetime.fromisoformat(reset_str) on the string
\* format_date_to_iso wrote, "...T00:00:00.000Z".  A runtime whose
\* fromisoformat rejects the "Z" raises, and the except clause leaves None.
ParseResetDate(reset_str, z) ==
    IF reset_str = NoDate THEN NoDate
    ELSE IF z THEN reset_str ELSE NoDate

\* ------------------------------------------------------------ records
AbsentItem == [present |-> FALSE, quantity |-> 0, recordType |-> "automatic"]

StoredItem(q, rt) == [present |-> TRUE, quantity |-> q, recordType |-> rt]

NoNumOrders ==
    [present |-> FALSE, resetDate |-> NoDate, automatic |-> 0, manual |-> 0,
     totalAutomatic |-> 0, totalManual |-> 0]

\* a raw listing of a GetMyeBaySelling page; SellingStatus says whether the
\* listing carries that key (its price)
Listings == [ItemID : Ids, QuantityAvailable : Quantities, SellingStatus : BOOLEAN]

AbsentOrder == [present |-> FALSE, date |-> 0]
StoredOrder(d) == [present |-> TRUE, date |-> d]

\* the pages of at most n listings: GetMyeBaySelling's ActiveList names every
\* listing once
RECURSIVE ListingPagesUpTo(_)
ListingPagesUpTo(n) ==
    IF n = 0 THEN {<<>>}
    ELSE LET shorter == ListingPagesUpTo(n - 1)
         IN shorter \cup
            {Append(p[1], p[2]) : p \in
                {q \in {u \in shorter : Len(u) = n - 1} \X Listings :
                    \A i \in 1..Len(q[1]) : q[1][i].ItemID # q[2].ItemID}}

ListingPages == ListingPagesUpTo(PageLen)


\* ------------------------------------------------------------ pre-flight
\* handlers.add_and_update_store: a user without numOrders gets one in memory,
\* with resetDate the first of next month and all counts 0 (handlers.py:123-131)
add_and_update_store(nl, no, t) ==
    [numListings |-> nl,
     numOrders |-> IF no.present THEN no
                   ELSE [present |-> TRUE, resetDate |-> get_next_month_reset_date(t),
                         automatic |-> 0, manual |-> 0,
                         totalAutomatic |-> 0, totalManual |-> 0]]

\* utils.fetch_user_inventory_and_orders_count.  When the reset date lies
\* before today, reset_needed is set and line 151 calls store_data.items()
\* on the IStore model (models.py:233), which has no such attribute: the
\* function raises AttributeError before db.reset_current_no_orders is reached.
fetch_user_inventory_and_orders_count(user, t, z) ==
    LET reset_date == ParseResetDate(user.numOrders.resetDate, z)
        reset_needed == reset_date # NoDate /\ t > reset_date
    IN [raised |-> reset_needed,
        automaticListings |-> user.numListings.automatic,
        manualListings |-> user.numListings.manual,
        automaticOrders |-> IF reset_needed THEN 0 ELSE user.numOrders.automatic,
        manualOrders |-> IF reset_needed THEN 0 ELSE user.numOrders.manual]

\* utils.fetch_users_limits(sub_name, item_type)["automatic"]
fetch_users_limits(item_type) ==
    IF item_type = inventory_key THEN LimitListings ELSE LimitOrders

\* The except clause of fetch_and_check_user (handlers.py:108-110): whatever was
\* raised inside, HTTPException(400) included, comes back as a returned
\* HTTPException with status 500.
WrapRaised(status) == 500

\* handlers.fetch_and_check_user.  exc = 0 stands for the returned triple
\* (user_ref, user, limits); otherwise exc is the status of the HTTPException
\* object the function returns and raised the status of the one raised inside
\* the try block.  store_ok is the outcome of handle_store.
fetch_and_check_user(item_type, nl, no, has_sub, t, z, store_ok) ==
    LET user == add_and_update_store(nl, no, t)
        limit == fetch_users_limits(item_type)
        user_count == fetch_user_inventory_and_orders_count(user, t, z)
        raised == IF ~has_sub THEN 400
                  ELSE IF user_count.raised THEN 500
                  ELSE IF user_count.automaticOrders >= limit THEN 400
                  ELSE IF ~store_ok THEN 500
                  ELSE 0
        exc == IF raised = 0 THEN 0 ELSE WrapRaised(raised)
    IN [raised |-> raised, exc |-> exc, user |-> user, limit |-> limit]

\* routes/update.py:47-62 and 106-120: `user_ref, user, limits = await
\* fetch_and_check_user(...)` cannot unpack a returned HTTPException; the
\* TypeError is caught and re-raised as HTTPException(500).
RouteStatus(res) == IF res.exc # 0 THEN 500 ELSE 200

\* ------------------------------------------------------------ background task
\* job is the background task whose step runs next; job.other holds, as a
\* sequence of at most one element, the task of an overlapping request that is
\* not running at the moment.
IdleJob ==
    [phase |-> "idle", kind |-> inventory_key,
     user |-> add_and_update_store([automatic |-> 0, manual |-> 0], NoNumOrders, 0),
     limit |-> 0, page |-> 1, depth |-> 0, slots |-> 0,
     items |-> <<>>, new |-> 0, old |-> 0, force |-> FALSE, bound |-> FALSE,
     fetches |-> 0, raised |-> 0, at |-> 0, ret |-> "", removed |-> {},
     writes |-> 0, other |-> <<>>,
     requests |-> <<>>, answer |-> [len |-> 0, more |-> FALSE]]

Active(j) == j.phase \in {"scheduled", "walking", "walked", "fetching", "fetched"}

\* routes/update.py with the pre-flight result ignored when scheduling
answer_and_schedule_always(res) == [status |-> RouteStatus(res), scheduled |-> TRUE]

\* routes/update.py:82 and 140: what the caller is answered once the background
\* task is scheduled, `return {"success": True}`.
answer_without_waiting(res) == [status |-> RouteStatus(res), scheduled |-> res.exc = 0]

\* routes/update.py update_inventory / update_orders.  A request without the
\* store_type query parameter is refused with HTTPException(500) (lines 32-37
\* and 90-95).  api_active is
\* `status_config["api"].get(store_type) == "active"` (lines 39-40 and 97-99):
\* when the store's API is switched off the service document `config` is
\* answered and nothing else runs.  Otherwise the pre-flight, then the
\* background task is scheduled and {"success": True} is answered.
UpdateEndpoint(item_type, store_type, api_active, store_ok) ==
    /\ ~Active(job)
    /\ nSyncs < MaxSyncs
    /\ nSyncs' = nSyncs + 1
    /\ IF ~store_type
       THEN /\ resp' = 500
            /\ job' = [IdleJob EXCEPT !.phase = "rejected", !.kind = item_type,
                                      !.raised = 500]
       ELSE IF ~api_active
       THEN /\ resp' = 200
            /\ job' = [IdleJob EXCEPT !.phase = "disabled", !.kind = item_type]
       ELSE LET res == fetch_and_check_user(item_type, numListings, numOrders,
                                            sub, today, isoZ, store_ok)
                answer == answer_without_waiting(res)
            IN /\ resp' = answer.status
               /\ job' = [IdleJob EXCEPT
                             !.phase = IF answer.scheduled THEN "scheduled"
                                       ELSE "rejected",
                             !.kind = item_type,
                             !.user = res.user,
                             !.limit = res.limit,
                             !.raised = res.raised,
                             !.at = today]
    /\ UNCHANGED <<today, isoZ, sub, numListings, numOrders, inventory, orders,
                   metaFetched, ebayFetched>>

update_inventory ==
    \E store_type, api_active, store_ok \in BOOLEAN :
        UpdateEndpoint(inventory_key, store_type, api_active, store_ok)

update_orders ==
    \E store_type, api_active, store_ok \in BOOLEAN :
        UpdateEndpoint(sale_key, store_type, api_active, store_ok)

\* the calendar moves on between syncs
Tick ==
    /\ ~Active(job)
    /\ today < MaxDay
    /\ today' = today + 1
    /\ UNCHANGED <<isoZ, sub, numListings, numOrders, inventory, orders,
                   metaFetched, ebayFetched, resp, job, nSyncs>>


\* ------------------------------------------------------------ inventory walker
\* handler.py:58 and 280: `while_loop_count >= MAX_WHILE_LOOP_DEPTH`
depth_reached(while_loop_count) == while_loop_count >= MaxDepth

\* constants.py:16-17, scaled: the cap on a page of orders lies below the
\* history limit and the cap on a page of listings above the listings limit,
\* so that a request is sized by the cap in one walker and by the limit in
\* the other
max_ebay_order_limit_per_page == PageLen
max_ebay_listing_limit_per_page == PageLen + 1

\* a page size that follows the limit alone
max_per_page_uncapped(limit, cap) == limit

\* handler.py:98-102 and 337-341
max_per_page(limit, cap) == IF limit > cap THEN cap ELSE limit

\* the Pagination of the request fetch_listings_from_ebay and
\* fetch_orders_from_ebay send for (limit, page) (handler.py:104-114, 343-350)
Pagination(limit, page, cap) ==
    [EntriesPerPage |-> max_per_page(limit, cap), PageNumber |-> page]

\* the cap of the walker of a job
PageCap(j) ==
    IF j.kind = sale_key THEN max_ebay_order_limit_per_page
    ELSE max_ebay_listing_limit_per_page

\* The marketplace call of a walker iteration raises (handler.py:62-64 and
\* 285-287); fetch_ebay_listings and fetch_ebay_orders re-raise (handler.py:
\* 84-86 and 318-320) and so does update_items (handlers.py:203-205): update_db
\* is not reached.
FetchRaises ==
    /\ job.phase = "walking"
    /\ ~depth_reached(job.depth)
    /\ job' = [job EXCEPT !.phase = "failed", !.depth = @ + 1,
                          !.fetches = @ + 1, !.ret = "unavailable",
                          !.requests = Append(@, Pagination(job.limit, job.page, PageCap(job)))]
    /\ UNCHANGED <<today, isoZ, sub, numListings, numOrders, inventory, orders,
                   metaFetched, ebayFetched, resp, nSyncs>>

\* the item dictionary process_listings builds (handler.py:158-177)
\* A listing of the classification part carries Title, GalleryURL and
\* ListingType as well; image is the one-element list of line 162 and ebay.type
\* (lines 173-175) a field that is stored but not compared.
ListingItem(listing) ==
    IF "Title" \in DOMAIN listing
    THEN [itemId |-> listing.ItemID, quantity |-> listing.QuantityAvailable,
          name |-> listing.Title, image |-> <<listing.GalleryURL>>,
          ebay |-> [type |-> listing.ListingType]]
    ELSE [itemId |-> listing.ItemID, quantity |-> listing.QuantityAvailable]

\* handler.py:199-209
fields_to_check ==
    {"currency", "dateListed", "image", "initialQuantity", "itemId", "name",
     "price", "quantity", "url"}

\* check_for_listing_changes looking at the quantity alone
check_for_listing_changes_quantity_only(item, db_listing) ==
    IF ~db_listing.present THEN TRUE
    ELSE item.quantity # db_listing.quantity

\* handler.check_for_listing_changes, on the fields of fields_to_check that the
\* model carries on both sides (the quantity alone for the walkers' records)
check_for_listing_changes(item, db_listing) ==
    IF ~db_listing.present THEN TRUE
    ELSE \E field \in fields_to_check \cap DOMAIN item \cap DOMAIN db_listing :
            item[field] # db_listing[field]

\* One pass of the for loop of process_listings (handler.py:139-185) over
\* listings[i..].  db_map is the result of get_items_by_ids, read once before
\* the loop.  st.ret is "ret4" for the four-element return of line 187,
\* "ret3" for the three-element return of line 185 and "raised" for the
\* KeyError of line 166 on a listing without SellingStatus, which the except
\* clause re-raises (lines 189-191).
RECURSIVE process_listings_from(_, _, _, _)
process_listings_from(listings, i, db_map, st) ==
    IF i > Len(listings) THEN [st EXCEPT !.ret = "ret4"]
    ELSE
      LET listing == listings[i]
          db_listing == db_map[listing.ItemID]
          isNew == ~db_listing.present
          new1 == IF isNew THEN st.new + 1 ELSE st.new
          slots1 == IF isNew THEN st.slots - 1 ELSE st.slots
          quantity == listing.QuantityAvailable
          remove == quantity = 0 /\ db_listing.present
          skip == quantity = 0 /\ ~db_listing.present
          item == ListingItem(listing)
          st1 == [st EXCEPT
                    !.new = IF remove THEN new1 - 1 ELSE new1,
                    !.slots = slots1,
                    !.minSlots = IF slots1 < st.minSlots THEN slots1 ELSE st.minSlots,
                    !.force = st.force \/ remove,
                    !.removed = IF remove THEN st.removed \cup {listing.ItemID}
                                ELSE st.removed]
          st2 == IF check_for_listing_changes(item, db_listing)
                 THEN [st1 EXCEPT !.items = Append(st1.items, item)]
                 ELSE st1
      IN IF skip THEN process_listings_from(listings, i + 1, db_map, st1)
         ELSE IF ~listing.SellingStatus THEN [st1 EXCEPT !.ret = "raised"]
         ELSE IF st2.slots <= 0 THEN [st2 EXCEPT !.ret = "ret3"]
         ELSE process_listings_from(listings, i + 1, db_map, st2)

\* handler.process_listings(listings, user, db, available_slots, id_key)
process_listings(listings, inv, available_slots) ==
    process_listings_from(listings, 1, inv,
        [items |-> <<>>, new |-> 0, slots |-> available_slots,
         minSlots |-> available_slots, force |-> FALSE, removed |-> {},
         ret |-> "loop"])

\* db.remove_item for every id in `ids`
remove_items(inv, ids) ==
    [id \in Ids |-> IF id \in ids THEN AbsentItem ELSE inv[id]]

\* update_items calling fetch_ebay_listings (handler.py:42-55): the slots are
\* limit - automaticListings; with no slot the while loop is not entered and
\* line 82 reads new_items_count, which was never assigned (UnboundLocalError).
StartListingsWalker ==
    /\ job.phase = "scheduled"
    /\ job.kind = inventory_key
    /\ LET user_count == fetch_user_inventory_and_orders_count(job.user, today, isoZ)
           available_slots == job.limit - user_count.automaticListings
       IN job' = [job EXCEPT
                    !.slots = available_slots,
                    !.phase = IF user_count.raised THEN "failed"
                              ELSE IF available_slots > 0 THEN "walking"
                              ELSE "failed"]
    /\ UNCHANGED <<today, isoZ, sub, numListings, numOrders, inventory, orders,
                   metaFetched, ebayFetched, resp, nSyncs>>

\* handler.py:58-59: the iteration ceiling
ListingsCeiling ==
    /\ job.phase = "walking"
    /\ job.kind = inventory_key
    /\ depth_reached(job.depth)
    /\ job' = [job EXCEPT !.phase = "failed"]
    /\ UNCHANGED <<today, isoZ, sub, numListings, numOrders, inventory, orders,
                   metaFetched, ebayFetched, resp, nSyncs>>

\* One iteration of the while loop of fetch_ebay_listings (handler.py:57-80).
\* last_page stands for `total_pages and page >= int(total_pages)`.
FetchListingsPage ==
    /\ job.phase = "walking"
    /\ job.kind = inventory_key
    /\ ~depth_reached(job.depth)
    /\ \E listings \in ListingPages, last_page \in BOOLEAN :
         LET r == process_listings(listings, inventory, job.slots)
             j1 == [job EXCEPT
                      !.depth = @ + 1, !.fetches = @ + 1,
                      !.requests = Append(@, Pagination(job.limit, job.page, PageCap(job))),
                      !.answer = [len |-> Len(listings), more |-> ~last_page]]
         IN IF listings = <<>>
            THEN \* break; line 82 needs new_items_count to be bound
                 /\ job' = [j1 EXCEPT !.phase = IF job.bound THEN "walked" ELSE "failed"]
                 /\ UNCHANGED inventory
            ELSE /\ inventory' = remove_items(inventory, r.removed)
                 /\ job' =
                      IF r.ret \in {"ret3", "raised"}
                      THEN \* four names unpacked from three values: ValueError;
                           \* or the KeyError of a listing re-raised
                           [j1 EXCEPT !.phase = "failed", !.ret = r.ret,
                                      !.removed = @ \cup r.removed]
                      ELSE [j1 EXCEPT
                              !.ret = r.ret, !.removed = @ \cup r.removed,
                              !.items = r.items, !.new = r.new, !.slots = r.slots,
                              !.force = r.force, !.bound = TRUE,
                              !.phase = IF last_page \/ r.slots <= 0 THEN "walked"
                                        ELSE "walking",
                              !.page = IF last_page \/ r.slots <= 0 THEN @ ELSE @ + 1]
    /\ UNCHANGED <<today, isoZ, sub, numListings, numOrders, orders,
                   metaFetched, ebayFetched, resp, nSyncs>>


\* ------------------------------------------------------------ persistence step
\* db.add_items as update_db calls it, with the id key: every item is set
\* under its id, in list order; the first k items are written.
RECURSIVE add_items(_, _, _)
add_items(inv, items, k) ==
    IF k = 0 THEN inv
    ELSE LET before == add_items(inv, items, k - 1)
             item == items[k]
         IN [before EXCEPT ![item.itemId] = StoredItem(item.quantity, "automatic")]

\* update_db going on whatever add_items returned
add_items_result_ignored(success) == TRUE

\* handlers.py:227-228: `if not res.get("success"): raise`; update_db goes on
\* to the StoreMeta and counter writes only when add_items reported success
add_items_succeeded(success) == success

\* db.set_current_no_listings(user_ref, automatic_count, new_listings, manual_count)
set_current_no_listings(automatic_count, new_listings, manual_count) ==
    [automatic |-> automatic_count + new_listings, manual |-> manual_count]

\* db.set_last_fetched_date(user_ref, data_type, date, store_type): the field
\* written is store.<store_type>.lastFetchedDate.<data_type>
set_last_fetched_date(fetched, data_type, date) ==
    [fetched EXCEPT ![data_type] = date]

\* handlers.update_db for the inventory kind (handlers.py:209-261).  written is
\* the number of items add_items set before the gateway failed, ok its result.
PersistListings ==
    /\ job.phase = "walked"
    /\ job.kind = inventory_key
    /\ IF job.items = <<>> /\ ~job.force
       THEN /\ job' = [job EXCEPT !.phase = "done"]
            /\ UNCHANGED <<inventory, ebayFetched, numListings>>
       ELSE \E ok \in BOOLEAN, written \in 0..Len(job.items) :
              /\ ok => written = Len(job.items)
              /\ inventory' = add_items(inventory, job.items, written)
              /\ IF add_items_succeeded(ok)
                 THEN /\ ebayFetched' = set_last_fetched_date(ebayFetched, inventory_key, today)
                      /\ numListings' = set_current_no_listings(
                                            job.user.numListings.automatic, job.new,
                                            job.user.numListings.manual)
                      /\ job' = [job EXCEPT !.phase = "done", !.writes = written]
                 ELSE /\ UNCHANGED <<ebayFetched, numListings>>
                      /\ job' = [job EXCEPT !.phase = "failed", !.writes = written]
    /\ UNCHANGED <<today, isoZ, sub, numOrders, orders, metaFetched, resp, nSyncs>>

\* ------------------------------------------------------------ initial states
CountRecords(inv, rt) == Cardinality({id \in Ids : inv[id].present /\ inv[id].recordType = rt})

\* the reset dates the code writes are first-of-month dates
ResetDates == {d \in 0..(MaxDay + DaysPerMonth) : IsFirstOfMonth(d)}

NoFetched == [inventory |-> NoDate, orders |-> NoDate]

InitInventory ==
    /\ today = 0
    /\ isoZ \in BOOLEAN
    /\ sub \in BOOLEAN
    /\ inventory \in [Ids -> {AbsentItem} \cup
                             {StoredItem(q, "automatic") : q \in 1..MaxQty}]
    /\ \E a \in 0..LimitListings :
         /\ a >= CountRecords(inventory, "automatic")
         /\ numListings = [automatic |-> a, manual |-> CountRecords(inventory, "manual")]
    /\ numOrders \in {NoNumOrders} \cup
                     {[present |-> TRUE, resetDate |-> d, automatic |-> a, manual |-> 0,
                       totalAutomatic |-> a, totalManual |-> 0] :
                        d \in ResetDates \cup {NoDate}, a \in {0, LimitListings}}
    /\ orders = [id \in Ids |-> AbsentOrder]
    /\ metaFetched = NoFetched
    /\ ebayFetched = NoFetched
    /\ resp = 0
    /\ job = IdleJob
    /\ nSyncs = 0

NextInventory ==
    \/ Tick
    \/ update_inventory
    \/ StartListingsWalker
    \/ ListingsCeiling
    \/ FetchListingsPage
    \/ PersistListings
    \/ FetchRaises

SpecInventory == InitInventory /\ [][NextInventory]_vars


\* ------------------------------------------------------------ orders walker
\* One creation instant per month is enumerated for an upstream order, none
\* later than today.  An order carries one transaction.
OrderDates(t) == {d \in 0..t : IsFirstOfMonth(d)}

UpstreamOrders(t) == [TransactionID : Ids, CreatedTime : OrderDates(t)]

RECURSIVE OrderPagesUpTo(_, _)
OrderPagesUpTo(n, t) ==
    IF n = 0 THEN {<<>>}
    ELSE LET shorter == OrderPagesUpTo(n - 1, t)
         IN shorter \cup
            {Append(p[1], p[2]) : p \in
                {q \in {u \in shorter : Len(u) = n - 1} \X UpstreamOrders(t) :
                    \A i \in 1..Len(q[1]) : q[1][i].TransactionID # q[2].TransactionID}}

OrderPages(t) == OrderPagesUpTo(PageLen, t)

\* handler.handle_new_order: the record built for an order not in the store
handle_new_order(order) ==
    [transactionId |-> order.TransactionID, date |-> order.CreatedTime]

\* handler.handle_modified_order: a copy of the stored record with the mutable
\* fields taken from upstream; sale.date stays the stored one.  It is returned
\* whether or not anything changed.
handle_modified_order(order, db_transaction) ==
    [transactionId |-> order.TransactionID, date |-> db_transaction.date]

\* utils.was_order_created_in_current_month: same month and year as now
was_order_created_in_current_month(item, t) == MonthOf(item.date) = MonthOf(t)

RECURSIVE process_orders_from(_, _, _, _, _)
process_orders_from(page_orders, i, db, t, st) ==
    IF i > Len(page_orders) THEN st
    ELSE LET order == page_orders[i]
             db_transaction == db[order.TransactionID]
             st2 ==
               IF ~db_transaction.present
               THEN LET item == handle_new_order(order)
                        cur == was_order_created_in_current_month(item, t)
                    IN [st EXCEPT !.items = Append(@, item),
                                  !.new = IF cur THEN @ + 1 ELSE @,
                                  !.old = IF cur THEN @ ELSE @ + 1,
                                  !.slots = @ - 1]
               ELSE [st EXCEPT !.items =
                        Append(@, handle_modified_order(order, db_transaction))]
         IN IF st2.slots <= 0 THEN st2
            ELSE process_orders_from(page_orders, i + 1, db, t, st2)

\* handler.process_orders(orders, db, uid, token, new_items_count,
\* old_items_count, available_slots): items starts empty on every call, the
\* two counts continue from the values passed in.
process_orders(page_orders, db, t, new_items_count, old_items_count, available_slots) ==
    process_orders_from(page_orders, 1, db, t,
        [items |-> <<>>, new |-> new_items_count, old |-> old_items_count,
         slots |-> available_slots])

\* fetch_ebay_orders up to the while loop (handler.py:253-277): without a
\* lastFetchedDate for orders the limit is replaced by the history limit.
OrdersWalkerLimit(limit, time_from) == IF time_from = NoDate THEN HistoryLimit ELSE limit

StartOrdersWalker ==
    /\ job.phase = "scheduled"
    /\ job.kind = sale_key
    /\ LET limit == OrdersWalkerLimit(job.limit, metaFetched[sale_key])
           user_count == fetch_user_inventory_and_orders_count(job.user, today, isoZ)
           available_slots == limit - user_count.automaticOrders
       IN job' = [job EXCEPT
                    !.limit = limit,
                    !.slots = available_slots,
                    !.phase = IF user_count.raised THEN "failed"
                              ELSE IF available_slots > 0 THEN "walking"
                              ELSE "walked"]
    /\ UNCHANGED <<today, isoZ, sub, numListings, numOrders, inventory, orders,
                   metaFetched, ebayFetched, resp, nSyncs>>

\* handler.py:279-280: the iteration ceiling
OrdersCeiling ==
    /\ job.phase = "walking"
    /\ job.kind = sale_key
    /\ depth_reached(job.depth)
    /\ job' = [job EXCEPT !.phase = "failed"]
    /\ UNCHANGED <<today, isoZ, sub, numListings, numOrders, inventory, orders,
                   metaFetched, ebayFetched, resp, nSyncs>>

\* One iteration of the while loop of fetch_ebay_orders (handler.py:278-309),
\* the page GetOrders answers being one of pages
FetchOrdersPageFrom(pages) ==
    /\ job.phase = "walking"
    /\ job.kind = sale_key
    /\ ~depth_reached(job.depth)
    /\ \E page_orders \in pages, has_more_orders \in BOOLEAN :
         LET r == process_orders(page_orders, orders, today, job.new, job.old, job.slots)
             j1 == [job EXCEPT
                      !.depth = @ + 1, !.fetches = @ + 1,
                      !.requests = Append(@, Pagination(job.limit, job.page, PageCap(job))),
                      !.answer = [len |-> Len(page_orders), more |-> has_more_orders]]
             stop == ~has_more_orders \/ r.slots <= 0
         IN job' = IF page_orders = <<>>
                   THEN [j1 EXCEPT !.phase = "walked"]
                   ELSE [j1 EXCEPT
                           !.items = r.items, !.new = r.new, !.old = r.old,
                           !.slots = r.slots,
                           !.phase = IF stop THEN "walked" ELSE "walking",
                           !.page = IF stop THEN @ ELSE @ + 1]
    /\ UNCHANGED <<today, isoZ, sub, numListings, numOrders, inventory, orders,
                   metaFetched, ebayFetched, resp, nSyncs>>

FetchOrdersPage == FetchOrdersPageFrom(OrderPages(today))

\* db.add_items for the orders collection, keyed by transactionId
RECURSIVE add_order_items(_, _, _)
add_order_items(db, items, k) ==
    IF k = 0 THEN db
    ELSE LET before == add_order_items(db, items, k - 1)
             item == items[k]
         IN [before EXCEPT ![item.transactionId] = StoredOrder(item.date)]

\* set_current_no_orders as an increment of the stored counters
set_current_no_orders_incrementing(no, new_orders, new_older_orders, t) ==
    [present |-> TRUE,
     resetDate |-> IF no.resetDate # NoDate THEN no.resetDate
                   ELSE get_next_month_reset_date(t),
     automatic |-> numOrders.automatic + new_orders,
     manual |-> no.manual,
     totalAutomatic |-> numOrders.totalAutomatic + new_orders + new_older_orders,
     totalManual |-> no.totalManual]

\* set_current_no_orders with the older orders added to the resettable count
set_current_no_orders_counting_old(no, new_orders, new_older_orders, t) ==
    [present |-> TRUE,
     resetDate |-> IF no.resetDate # NoDate THEN no.resetDate
                   ELSE get_next_month_reset_date(t),
     automatic |-> no.automatic + new_orders + new_older_orders,
     manual |-> no.manual,
     totalAutomatic |-> no.totalAutomatic + new_orders + new_older_orders,
     totalManual |-> no.totalManual]

\* db.set_current_no_orders(user_ref, numOrders, new_orders, new_older_orders)
\* at time t: the whole store.numOrders map is replaced (db_firebase.py:164-190)
set_current_no_orders(no, new_orders, new_older_orders, t) ==
    [present |-> TRUE,
     resetDate |-> IF no.resetDate # NoDate THEN no.resetDate
                   ELSE get_next_month_reset_date(t),
     automatic |-> no.automatic + new_orders,
     manual |-> no.manual,
     totalAutomatic |-> no.totalAutomatic + new_orders + new_older_orders,
     totalManual |-> no.totalManual]

\* handlers.update_db for the orders kind (handlers.py:209-261)
PersistOrders ==
    /\ job.phase = "walked"
    /\ job.kind = sale_key
    /\ IF job.items = <<>> /\ ~job.force
       THEN /\ job' = [job EXCEPT !.phase = "done"]
            /\ UNCHANGED <<orders, ebayFetched, numOrders>>
       ELSE \E ok \in BOOLEAN, written \in 0..Len(job.items) :
              /\ ok => written = Len(job.items)
              /\ orders' = add_order_items(orders, job.items, written)
              /\ IF add_items_succeeded(ok)
                 THEN /\ ebayFetched' = set_last_fetched_date(ebayFetched, sale_key, today)
                      /\ numOrders' = set_current_no_orders(job.user.numOrders,
                                                             job.new, job.old, today)
                      /\ job' = [job EXCEPT !.phase = "done", !.writes = written]
                 ELSE /\ UNCHANGED <<ebayFetched, numOrders>>
                      /\ job' = [job EXCEPT !.phase = "failed", !.writes = written]
    /\ UNCHANGED <<today, isoZ, sub, numListings, inventory, metaFetched, resp, nSyncs>>

\* the stored orders, the counters and the fetch marker an orders sync can meet
InitOrders ==
    /\ today = 0
    /\ isoZ \in BOOLEAN
    /\ sub \in BOOLEAN
    /\ inventory = [id \in Ids |-> AbsentItem]
    /\ numListings = [automatic |-> 0, manual |-> 0]
    /\ orders \in [Ids -> {AbsentOrder, StoredOrder(0)}]
    /\ \E a \in 0..LimitOrders :
         /\ a >= Cardinality({id \in Ids : orders[id].present})
         /\ numOrders \in
              (IF a = 0 THEN {NoNumOrders} ELSE {}) \cup
              {[present |-> TRUE, resetDate |-> d, automatic |-> a, manual |-> 0,
                totalAutomatic |-> a, totalManual |-> 0] : d \in ResetDates \cup {NoDate}}
    /\ metaFetched \in {NoFetched, [NoFetched EXCEPT ![sale_key] = 0]}
    /\ ebayFetched = NoFetched
    /\ resp = 0
    /\ job = IdleJob
    /\ nSyncs = 0

NextOrders ==
    \/ Tick
    \/ update_orders
    \/ StartOrdersWalker
    \/ OrdersCeiling
    \/ FetchOrdersPage
    \/ PersistOrders
    \/ FetchRaises

SpecOrders == InitOrders /\ [][NextOrders]_vars


\* ------------------------------------------------------------ first revision
\* The orders update of src/src/handler_ebay.py with src/src/db_firebase.py.
\* Its counters live in store.ebay.numOrders and its fetch marker in
\* store.ebay.lastFetchedDate.orders (numOrders and ebayFetched here).  The
\* inventory is empty in InitLegacy, so the listing lookup of
\* enrich_order_items finds nothing and writes nothing.
OrderStatuses == {"Completed", "Cancelled"}

LegacyOrders(t) ==
    [OrderID : Ids, OrderStatus : OrderStatuses, Refunds : BOOLEAN,
     CreatedTime : OrderDates(t)]

RECURSIVE LegacyPagesUpTo(_, _)
LegacyPagesUpTo(n, t) ==
    IF n = 0 THEN {<<>>}
    ELSE LET shorter == LegacyPagesUpTo(n - 1, t)
         IN shorter \cup
            {Append(p[1], p[2]) : p \in
                {q \in {u \in shorter : Len(u) = n - 1} \X LegacyOrders(t) :
                    \A i \in 1..Len(q[1]) : q[1][i].OrderID # q[2].OrderID}}

\* handler_ebay.should_remove_order
should_remove_order(order) ==
    IF order.Refunds THEN TRUE
    ELSE IF order.OrderStatus \in {"Active", "InProcess", "Completed", "Shipped"} THEN FALSE
    ELSE order.OrderStatus \in {"Cancelled", "Inactive", "Invalid"}

\* src/src/db_firebase.py set_current_no_orders(user_ref, numOrders,
\* new_orders, store_type) at day t: write says whether the update is issued
\* (not when automatic is 0 and new_orders is -1, nor when resetDate is
\* missing and the parse raises), value is the map then stored.
legacy_set_current_no_orders(no, new_orders, t) ==
    LET expired == t >= no.resetDate
    IN [write |-> ~(no.automatic = 0 /\ new_orders = 0 - 1) /\ no.resetDate # NoDate,
        value |-> [present |-> TRUE,
                   resetDate |-> IF expired THEN get_next_month_reset_date(t)
                                 ELSE no.resetDate,
                   automatic |-> IF expired THEN new_orders
                                 ELSE no.automatic + new_orders,
                   manual |-> IF expired THEN 0 ELSE no.manual,
                   totalAutomatic |-> no.totalAutomatic + new_orders,
                   totalManual |-> no.totalManual]]

\* update_ebay_orders up to the call of fetch_ebay_orders (handler_ebay.py:288-319)
update_ebay_orders ==
    /\ ~Active(job)
    /\ nSyncs < MaxSyncs
    /\ nSyncs' = nSyncs + 1
    /\ LET user == [numListings |-> numListings,
                    numOrders |-> IF numOrders.present THEN numOrders
                                  ELSE [NoNumOrders EXCEPT
                                          !.present = TRUE,
                                          !.resetDate = get_next_month_reset_date(today)]]
           over == user.numOrders.automatic >= LimitOrders
       IN job' = [IdleJob EXCEPT
                    !.phase = IF over THEN "rejected" ELSE "fetching",
                    !.kind = sale_key, !.user = user, !.limit = LimitOrders,
                    !.raised = IF over THEN 400 ELSE 0, !.at = today,
                    !.bound = ebayFetched[sale_key] = NoDate]
    /\ UNCHANGED <<today, isoZ, sub, numListings, numOrders, inventory, orders,
                   metaFetched, ebayFetched, resp>>

\* the loop of the first revision's fetch_ebay_orders over orders[::-1]
\* (handler_ebay.py:411-430); st.no is the stored store.ebay.numOrders
RECURSIVE legacy_orders_from(_, _, _, _, _, _)
legacy_orders_from(page_orders, i, first_lookup, snapshot, t, st) ==
    IF i < 1 THEN st
    ELSE LET order == page_orders[i]
             res == legacy_set_current_no_orders(snapshot, 0 - 1, t)
             st2 ==
               IF should_remove_order(order) /\ ~first_lookup
               THEN [st EXCEPT !.db[order.OrderID] = AbsentOrder,
                               !.no = IF res.write THEN res.value ELSE @]
               ELSE IF should_remove_order(order) THEN st
               ELSE [st EXCEPT !.items = Append(@,
                        [orderId |-> order.OrderID, date |-> order.CreatedTime])]
         IN legacy_orders_from(page_orders, i - 1, first_lookup, snapshot, t, st2)

\* fetch_ebay_orders of the first revision: one GetOrders call
LegacyFetchOrders ==
    /\ job.phase = "fetching"
    /\ \E page_orders \in LegacyPagesUpTo(PageLen, today) :
         LET st == legacy_orders_from(page_orders, Len(page_orders), job.bound,
                                      job.user.numOrders, today,
                                      [db |-> orders, no |-> numOrders, items |-> <<>>])
         IN /\ orders' = st.db
            /\ numOrders' = st.no
            /\ job' = [job EXCEPT !.phase = "fetched", !.items = st.items,
                                  !.depth = 1, !.fetches = 1]
    /\ UNCHANGED <<today, isoZ, sub, numListings, inventory, metaFetched,
                   ebayFetched, resp, nSyncs>>

\* src/src/db_firebase.py add_orders: every order is set under its orderId
RECURSIVE add_orders(_, _, _)
add_orders(db, orders_list, k) ==
    IF k = 0 THEN db
    ELSE LET before == add_orders(db, orders_list, k - 1)
             order == orders_list[k]
         IN [before EXCEPT ![order.orderId] = StoredOrder(order.date)]

\* handler_ebay.split_orders_by_date and orders_to_add (handler_ebay.py:340-342)
OlderOrders(items, t) == SelectSeq(items, LAMBDA o : MonthOf(o.date) # MonthOf(t))

CurrentMonthOrders(items, t) == SelectSeq(items, LAMBDA o : MonthOf(o.date) = MonthOf(t))

Take(s, n) == SubSeq(s, 1, IF n < Len(s) THEN n ELSE Len(s))

\* update_ebay_orders after the fetch (handler_ebay.py:331-357): the orders
\* are added and the fetch date is set; the call of set_current_no_orders then
\* passes one argument more than the first revision's definition takes, the
\* TypeError is caught and {"error": ...} returned.
LegacyPersistOrders ==
    /\ job.phase = "fetched"
    /\ LET available_slots == job.limit - job.user.numOrders.automatic
           orders_to_add == OlderOrders(job.items, today) \o
                            Take(CurrentMonthOrders(job.items, today), available_slots)
       IN IF job.items = <<>> \/ available_slots <= 0
          THEN /\ job' = [job EXCEPT !.phase = "done"]
               /\ UNCHANGED <<orders, ebayFetched>>
          ELSE /\ orders' = add_orders(orders, orders_to_add, Len(orders_to_add))
               /\ ebayFetched' = set_last_fetched_date(ebayFetched, sale_key, today)
               /\ job' = [job EXCEPT !.phase = "failed"]
    /\ UNCHANGED <<today, isoZ, sub, numListings, numOrders, inventory,
                   metaFetched, resp, nSyncs>>

InitLegacy ==
    /\ today = 0
    /\ isoZ = TRUE
    /\ sub = TRUE
    /\ inventory = [id \in Ids |-> AbsentItem]
    /\ numListings = [automatic |-> 0, manual |-> 0]
    /\ orders \in [Ids -> {AbsentOrder, StoredOrder(0)}]
    /\ \E a \in 0..LimitOrders :
         /\ a >= Cardinality({id \in Ids : orders[id].present})
         /\ numOrders \in
              (IF a = 0 THEN {NoNumOrders} ELSE {}) \cup
              {[present |-> TRUE, resetDate |-> d, automatic |-> a, manual |-> 0,
                totalAutomatic |-> a, totalManual |-> 0] : d \in ResetDates}
    /\ metaFetched = NoFetched
    /\ ebayFetched \in {NoFetched, [NoFetched EXCEPT ![sale_key] = 0]}
    /\ resp = 0
    /\ job = IdleJob
    /\ nSyncs = 0

NextLegacy ==
    \/ Tick
    \/ update_ebay_orders
    \/ LegacyFetchOrders
    \/ LegacyPersistOrders

SpecLegacy == InitLegacy /\ [][NextLegacy]_vars

\* ------------------------------------------------------------ properties
\* the automatic count a sync of `kind` should be judged on: the counter of
\* that kind, the orders counter counting as 0 from the reset date on
CountedAutomatic(kind) ==
    IF kind = inventory_key THEN numListings.automatic
    ELSE IF numOrders.resetDate # NoDate /\ today >= numOrders.resetDate THEN 0
    ELSE numOrders.automatic

C2_StopsAtLimit ==
    [][(job.phase = "walking" /\ job.kind = inventory_key
        /\ job'.depth = job.depth + 1 /\ job'.ret = "ret3")
       => (job'.phase = "walked" /\ job'.new = job.new + job.slots)]_vars

\* C3: a request for a sync whose counted automatic has reached the limit of
\* its kind is rejected by the pre-flight.
C3_PreflightGuard ==
    [][(nSyncs' = nSyncs + 1
        /\ CountedAutomatic(job'.kind) >= fetch_users_limits(job'.kind))
       => job'.phase = "rejected"]_vars

\* C4: a quota or missing-subscription rejection (status 400 raised by the
\* pre-flight) is answered with a 4xx status.
C4_QuotaIs4xx ==
    (job.phase = "rejected" /\ job.raised = 400) => resp \in 400..499

C6_ExpiredOnResetDay ==
    (job.kind = sale_key /\ job.phase # "idle" /\ sub
     /\ job.user.numOrders.resetDate = job.at)
    => ~(job.phase = "rejected" /\ job.raised = 400)

\* C7: after a completed sync the persisted numOrders.resetDate is a
\* first-of-month date not earlier than the day of that sync.
C7_ResetDateInvariant ==
    job.phase = "done"
    => /\ numOrders.present
       /\ IsFirstOfMonth(numOrders.resetDate)
       /\ numOrders.resetDate >= job.at

CreatedOrders(before, after, m, cur) ==
    {id \in Ids : /\ ~before[id].present
                  /\ after[id].present
                  /\ (MonthOf(after[id].date) = m) = cur}

C8_TotalMonotone ==
    [][numOrders'.totalAutomatic >= numOrders.totalAutomatic]_vars


\* the records of the list `items` whose id is not stored in `inv`
NewRecords(items, inv) == {i \in 1..Len(items) : ~inv[items[i].itemId].present}

\* C11: a zero-quantity listing that is not stored consumes no slot: the slots
\* a page of the inventory walker uses up are as many as the records it
\* returns for creation.
C11_ZeroQuantitySkipped ==
    [][(job.phase = "walking" /\ job.kind = inventory_key
        /\ job'.depth = job.depth + 1 /\ job'.ret = "ret4")
       => job.slots - job'.slots = Cardinality(NewRecords(job'.items, inventory))]_vars


MaxFee == 1
MaxPaid == 2
MaxOptions == 2
MaxRefetches == 1

\* models.OrderStatus, the statuses extract_history_data tells apart
OrderStatus == {"Active", "InProcess", "Completed", "CancelPending", "Cancelled"}

\* one entry of ShippingDetails.ShippingServiceOptions, with or without a
\* ShippingServiceCost
NoCost == [hasCost |-> FALSE, value |-> 0]
CostObjects == {NoCost} \cup {[hasCost |-> TRUE, value |-> v] : v \in 1..MaxFee}

RECURSIVE CostListsUpTo(_)
CostListsUpTo(n) ==
    IF n = 0 THEN {<<>>}
    ELSE LET shorter == CostListsUpTo(n - 1)
         IN shorter \cup {Append(s, o) : s \in {u \in shorter : Len(u) = n - 1},
                                         o \in CostObjects}

\* the shapes ShippingServiceOptions arrives in: the key is absent, a list of
\* entries, or a single entry
ShippingServiceOptions ==
    {[kind |-> "absent", list |-> <<>>, obj |-> NoCost]}
    \cup {[kind |-> "list", list |-> s, obj |-> NoCost] : s \in CostListsUpTo(MaxOptions)}
    \cup {[kind |-> "dict", list |-> <<>>, obj |-> o] : o \in CostObjects}

\* the raw orders of GetOrders, one transaction each; Refund says whether
\* MonetaryDetails.Refunds.Refund is there
RawOrders ==
    {o \in [TransactionID : {1}, OrderStatus : OrderStatus, AmountPaid : {MaxPaid},
            TransactionPrice : {1}, QuantityPurchased : {1}, Title : {"a", "b"},
            CreatedTime : {0}, ShippedTime : {NoDate, 1}, LastModifiedTime : {1, 2},
            Refund : BOOLEAN, ShippingServiceOptions : ShippingServiceOptions] :
        o.Refund => o.OrderStatus \in {"CancelPending", "Cancelled"}}

\* extract.extract_refund_data: only a cancelled order carries a refund
NoRefund == [present |-> FALSE]
extract_refund_data(order, is_cancelled) ==
    IF ~is_cancelled THEN NoRefund
    ELSE IF ~order.Refund THEN NoRefund
    ELSE [present |-> TRUE]

\* len(shipping_service_options) of extract_shipping_cost: a list's length, a
\* dict's number of keys
OptionsLen(opts) ==
    CASE opts.kind = "absent" -> 0
      [] opts.kind = "list" -> Len(opts.list)
      [] OTHER -> IF opts.obj.hasCost THEN 1 ELSE 0

\* extract_shipping_cost with the list branch left out: a list has no .get,
\* the exception is swallowed and the fee stays 0
extract_shipping_cost_dict_only(order) ==
    LET shipping_service_options == order.ShippingServiceOptions
    IN IF OptionsLen(shipping_service_options) = 0 THEN 0
       ELSE IF shipping_service_options.kind = "list" THEN 0
            ELSE IF shipping_service_options.obj.hasCost
                 THEN shipping_service_options.obj.value ELSE 0

\* extract.extract_shipping_cost: the cost of the first entry of a list, or of
\* the single entry; 0 when there is none
extract_shipping_cost(order) ==
    LET shipping_service_options == order.ShippingServiceOptions
    IN IF OptionsLen(shipping_service_options) = 0 THEN 0
       ELSE IF shipping_service_options.kind = "list"
            THEN IF shipping_service_options.list[1].hasCost
                 THEN shipping_service_options.list[1].value ELSE 0
            ELSE IF shipping_service_options.obj.hasCost
                 THEN shipping_service_options.obj.value ELSE 0

\* extract.extract_shipping_details: fees and shippedAt (the other keys are
\* read off the order the same way and compared as part of the dict)
extract_shipping_details(order) ==
    [fees |-> extract_shipping_cost(order), shippedAt |-> order.ShippedTime]

\* handler.handle_new_order with the fields of the record the modified path
\* looks at
new_order_record(order) ==
    LET order_status == order.OrderStatus
        is_cancelled == order_status = "Cancelled"
        sale_price == order.QuantityPurchased * order.TransactionPrice
        refund == IF order_status \in {"CancelPending", "Cancelled"}
                  THEN extract_refund_data(order, is_cancelled) ELSE NoRefund
        shipping == extract_shipping_details(order)
        additional_fees == IF is_cancelled THEN 0
                           ELSE order.AmountPaid - sale_price - shipping.fees
    IN [present |-> TRUE, date |-> order.CreatedTime,
        additionalFees |-> additional_fees, name |-> order.Title,
        price |-> sale_price, quantity |-> order.QuantityPurchased,
        shipping |-> shipping, status |-> order_status, refund |-> refund,
        lastModified |-> order.LastModifiedTime]

\* modified_order_record taking the shipping fee out of the additional fees
\* twice
modified_order_record_fee_twice(order, db_transaction) ==
    LET order_status == order.OrderStatus
        is_cancelled == order_status = "Cancelled"
        sale_price == order.QuantityPurchased * order.TransactionPrice
        refund == IF order_status \in {"CancelPending", "Cancelled"}
                  THEN extract_refund_data(order, is_cancelled) ELSE NoRefund
        new_shipping == extract_shipping_details(order)
        new_additional_fees == IF is_cancelled THEN 0
                               ELSE order.AmountPaid - sale_price - 2 * new_shipping.fees
        changes_found ==
            \/ db_transaction.additionalFees # new_additional_fees
            \/ db_transaction.shipping # new_shipping
            \/ db_transaction.status # order_status
            \/ db_transaction.refund # refund
            \/ db_transaction.name # order.Title
            \/ db_transaction.price # sale_price
            \/ db_transaction.quantity # order.QuantityPurchased
    IN [db_transaction EXCEPT
          !.additionalFees = new_additional_fees, !.shipping = new_shipping,
          !.status = order_status, !.refund = refund, !.name = order.Title,
          !.price = sale_price, !.quantity = order.QuantityPurchased,
          !.lastModified = IF changes_found THEN order.LastModifiedTime ELSE @]

\* handler.handle_modified_order on such a record: each compared field that
\* differs is overwritten, and lastModified only if one did
modified_order_record(order, db_transaction) ==
    LET order_status == order.OrderStatus
        is_cancelled == order_status = "Cancelled"
        sale_price == order.QuantityPurchased * order.TransactionPrice
        refund == IF order_status \in {"CancelPending", "Cancelled"}
                  THEN extract_refund_data(order, is_cancelled) ELSE NoRefund
        new_shipping == extract_shipping_details(order)
        new_additional_fees == IF is_cancelled THEN 0
                               ELSE order.AmountPaid - sale_price - new_shipping.fees
        changes_found ==
            \/ db_transaction.additionalFees # new_additional_fees
            \/ db_transaction.shipping # new_shipping
            \/ db_transaction.status # order_status
            \/ db_transaction.refund # refund
            \/ db_transaction.name # order.Title
            \/ db_transaction.price # sale_price
            \/ db_transaction.quantity # order.QuantityPurchased
    IN [db_transaction EXCEPT
          !.additionalFees = new_additional_fees, !.shipping = new_shipping,
          !.status = order_status, !.refund = refund, !.name = order.Title,
          !.price = sale_price, !.quantity = order.QuantityPurchased,
          !.lastModified = IF changes_found THEN order.LastModifiedTime ELSE @]

\* the job of this part: the raw order processed last and the record that was
\* stored for it before
NoRecordJob == [phase |-> "idle", order |-> <<>>, db_transaction |-> AbsentOrder]

\* process_orders on one raw order that retrieve_item does not find
\* (handler.py:385-401), followed by its upsert
StoreNewOrder ==
    \E order \in RawOrders :
        /\ ~orders[order.TransactionID].present
        /\ orders' = [orders EXCEPT ![order.TransactionID] = new_order_record(order)]
        /\ job' = [phase |-> "new", order |-> order, db_transaction |-> AbsentOrder]
        /\ UNCHANGED <<today, isoZ, sub, numListings, numOrders, inventory,
                       metaFetched, ebayFetched, resp, nSyncs>>

\* process_orders on one raw order that is stored (handler.py:403-410),
\* followed by its upsert
StoreModifiedOrder ==
    \E order \in RawOrders :
        /\ orders[order.TransactionID].present
        /\ nSyncs < MaxRefetches
        /\ orders' = [orders EXCEPT ![order.TransactionID] =
                        modified_order_record(order, orders[order.TransactionID])]
        /\ job' = [phase |-> "modified", order |-> order,
                   db_transaction |-> orders[order.TransactionID]]
        /\ nSyncs' = nSyncs + 1
        /\ UNCHANGED <<today, isoZ, sub, numListings, numOrders, inventory,
                       metaFetched, ebayFetched, resp>>

InitRecords ==
    /\ today = 2
    /\ isoZ = TRUE
    /\ sub = TRUE
    /\ inventory = [id \in Ids |-> AbsentItem]
    /\ numListings = [automatic |-> 0, manual |-> 0]
    /\ orders = [id \in Ids |-> AbsentOrder]
    /\ numOrders = NoNumOrders
    /\ metaFetched = NoFetched
    /\ ebayFetched = NoFetched
    /\ resp = 0
    /\ job = NoRecordJob
    /\ nSyncs = 0

NextRecords ==
    \/ StoreNewOrder
    \/ StoreModifiedOrder

SpecRecords == InitRecords /\ [][NextRecords]_vars

\* C15: running the modified-order path with the raw order a record was
\* created from gives the stored record back, field for field (lastModified
\* aside).
C15_RoundTrip ==
    (job.phase = "modified" /\ job.db_transaction = new_order_record(job.order))
    => [orders[job.order.TransactionID] EXCEPT !.lastModified = 0]
       = [job.db_transaction EXCEPT !.lastModified = 0]

C15_Witness ==
    /\ job.phase = "modified"
    /\ job.db_transaction = new_order_record(job.order)
    /\ job.order.OrderStatus = "Cancelled" /\ job.order.Refund
    /\ job.order.ShippingServiceOptions.kind = "list"
    /\ job.db_transaction.shipping.fees > 0
    /\ nSyncs = MaxRefetches

\* the raw order `order` with its ShippingServiceOptions being the single
\* entry o
WithSingleObject(order, o) ==
    [order EXCEPT !.ShippingServiceOptions = [kind |-> "dict", list |-> <<>>, obj |-> o]]

\* C16: a one-entry list of shipping options gives the fee of its entry taken
\* alone, and no options at all give the fee 0.
C16_ListAsObject ==
    job.phase \in {"new", "modified"} =>
        LET opts == job.order.ShippingServiceOptions
            fees == orders[job.order.TransactionID].shipping.fees
        IN /\ (opts.kind = "list" /\ Len(opts.list) = 1)
                => fees = extract_shipping_cost(WithSingleObject(job.order, opts.list[1]))
           /\ (opts.kind = "absent" \/ (opts.kind = "list" /\ opts.list = <<>>))
                => fees = 0

C16_Witness ==
    /\ job.phase = "new"
    /\ job.order.ShippingServiceOptions.kind = "list"
    /\ Len(job.order.ShippingServiceOptions.list) = 1
    /\ job.order.ShippingServiceOptions.list[1].hasCost
    /\ orders[job.order.TransactionID].shipping.fees = MaxFee

\* ------------------------------------------------------------ order history
\* The revision whose records carry a history (ebay/handler_ebay.py with
\* ebay/extract.py).
MaxResyncs == 2

\* one history event; description tells apart events of one title
Event(title, description, status, timestamp) ==
    [title |-> title, description |-> description, status |-> status,
     timestamp |-> timestamp]

\* already_exists of extract_history_data: an event of that title is in
\* db_history
already_exists(title, db_history) ==
    \E i \in 1..Len(db_history) : db_history[i].title = title

\* list.sort(key=timestamp): stable, so events of one timestamp keep the order
\* they were added in
RECURSIVE SortByTimestamp(_)
SortByTimestamp(events) ==
    IF events = <<>> THEN <<>>
    ELSE LET e == events[Len(events)]
             sorted == SortByTimestamp(SubSeq(events, 1, Len(events) - 1))
             k == Cardinality({i \in 1..Len(sorted) : sorted[i].timestamp <= e.timestamp})
         IN SubSeq(sorted, 1, k) \o <<e>> \o SubSeq(sorted, k + 1, Len(sorted))

\* extract.extract_history_data: the events the order's status calls for that
\* db_history has no title of, sorted by timestamp.  The InProcess fallback
\* looks for shipping["shippedTime"], a key extract_shipping_details never
\* sets, so it is added whenever the status is InProcess.
extract_history_data(order, shipping, refund, db_history) ==
    LET order_status == order.OrderStatus
        modification_date == order.LastModifiedTime
        add_event(new_events, e) ==
            IF already_exists(e.title, db_history) THEN new_events
            ELSE Append(new_events, e)
        e1 == add_event(<<>>,
                Event("Sold", "placed",
                      IF order_status \in {"InProcess", "Active"} THEN order_status
                      ELSE "Active", order.CreatedTime))
        e2 == IF shipping.shippedAt # NoDate
              THEN add_event(e1,
                     Event("Shipped", "shipped",
                           IF order_status \in {"InProcess", "Active"} THEN order_status
                           ELSE "InProcess", shipping.shippedAt))
              ELSE e1
        e3 == CASE order_status = "Completed" ->
                     add_event(e2, Event("Completed", "completed", order_status,
                                         modification_date))
                [] order_status = "CancelPending" ->
                     add_event(e2, Event("Cancellation Requested", "pending",
                                         order_status, modification_date))
                [] order_status = "Cancelled" ->
                     add_event(e2, Event(IF refund.present THEN "Refunded" ELSE "Cancelled",
                                         "cancelled", order_status, modification_date))
                [] order_status = "InProcess" ->
                     add_event(e2, Event("Shipped", "in process", order_status,
                                         modification_date))
                [] OTHER -> e2
    IN SortByTimestamp(e3)

\* handler_ebay.handle_new_order: the record of handler.handle_new_order with
\* history, a list holding the list of events, and lastModified the time of
\* the call
history_new_order(order, t) ==
    LET record == new_order_record(order)
        history == extract_history_data(order, record.shipping, record.refund, <<>>)
    IN ("history" :> <<history>>) @@ [record EXCEPT !.lastModified = t]

\* handler_ebay.handle_modified_order: extract_history_data is called without
\* db_history; when a compared field changed, the list it returns is appended
\* to history as one element unless it equals the last element.
history_modified_order(order, db_transaction, t) ==
    LET order_status == order.OrderStatus
        is_cancelled == order_status = "Cancelled"
        sale_price == order.QuantityPurchased * order.TransactionPrice
        refund == IF order_status \in {"CancelPending", "Cancelled"}
                  THEN extract_refund_data(order, is_cancelled) ELSE NoRefund
        new_shipping == extract_shipping_details(order)
        new_additional_fees == IF is_cancelled THEN 0
                               ELSE order.AmountPaid - sale_price - new_shipping.fees
        new_history == extract_history_data(order, new_shipping, refund, <<>>)
        changes_found ==
            \/ db_transaction.additionalFees # new_additional_fees
            \/ db_transaction.shipping # new_shipping
            \/ db_transaction.status # order_status
            \/ db_transaction.refund # refund
            \/ db_transaction.name # order.Title
            \/ db_transaction.price # sale_price
            \/ db_transaction.quantity # order.QuantityPurchased
        history_list == db_transaction.history
    IN [db_transaction EXCEPT
          !.additionalFees = new_additional_fees, !.shipping = new_shipping,
          !.status = order_status, !.refund = refund, !.name = order.Title,
          !.price = sale_price, !.quantity = order.QuantityPurchased,
          !.history = IF changes_found
                         /\ (history_list = <<>>
                             \/ new_history # history_list[Len(history_list)])
                      THEN Append(history_list, new_history) ELSE @,
          !.lastModified = IF changes_found THEN t ELSE @]

\* the raw orders of this part: no shipping options
HistoryRawOrders == {o \in RawOrders : o.ShippingServiceOptions.kind = "absent"}

\* process_orders of handler_ebay on one raw order that is not stored
\* (handler_ebay.py:446-470), followed by its upsert
HistoryNewOrder ==
    \E order \in HistoryRawOrders :
        /\ ~orders[order.TransactionID].present
        /\ orders' = [orders EXCEPT ![order.TransactionID] = history_new_order(order, today)]
        /\ job' = [phase |-> "new", order |-> order, db_transaction |-> AbsentOrder]
        /\ UNCHANGED <<today, isoZ, sub, numListings, numOrders, inventory,
                       metaFetched, ebayFetched, resp, nSyncs>>

\* process_orders of handler_ebay on one raw order that is stored
\* (handler_ebay.py:472-479), followed by its upsert
HistoryModifiedOrder ==
    \E order \in HistoryRawOrders :
        /\ orders[order.TransactionID].present
        /\ nSyncs < MaxResyncs
        /\ orders' = [orders EXCEPT ![order.TransactionID] =
                        history_modified_order(order, orders[order.TransactionID], today)]
        /\ job' = [phase |-> "modified", order |-> order,
                   db_transaction |-> orders[order.TransactionID]]
        /\ nSyncs' = nSyncs + 1
        /\ UNCHANGED <<today, isoZ, sub, numListings, numOrders, inventory,
                       metaFetched, ebayFetched, resp>>

NextHistory ==
    \/ HistoryNewOrder
    \/ HistoryModifiedOrder

SpecHistory == InitRecords /\ [][NextHistory]_vars

\* the events of a history, one after the other
RECURSIVE HistoryEvents(_)
HistoryEvents(history) ==
    IF history = <<>> THEN <<>>
    ELSE HistoryEvents(SubSeq(history, 1, Len(history) - 1)) \o history[Len(history)]

DuplicateTitle(events) ==
    \E i, j \in 1..Len(events) : i < j /\ events[i].title = events[j].title

\* C13: across syncs the history of a stored order never loses an event, and
\* it never holds two events of one title.
C13_HistoryMonotoneNoDuplicates ==
    job.phase \in {"new", "modified"} =>
        LET events == HistoryEvents(orders[job.order.TransactionID].history)
        IN /\ job.phase = "modified"
                => Len(events) >= Len(HistoryEvents(job.db_transaction.history))
           /\ ~DuplicateTitle(events)

\* C14: an order stored as Active with a Sold event that comes back as
\* Completed has its previous history plus one Completed event.
C14_ActiveToCompleted ==
    (/\ job.phase = "modified"
     /\ job.db_transaction.status = "Active"
     /\ already_exists("Sold", HistoryEvents(job.db_transaction.history))
     /\ job.order.OrderStatus = "Completed")
    => \E e \in {Event("Completed", "completed", "Completed", job.order.LastModifiedTime)} :
          HistoryEvents(orders[job.order.TransactionID].history)
            = Append(HistoryEvents(job.db_transaction.history), e)

\* ------------------------------------------------------------ both walkers
\* The two endpoints of one user, a month in which nothing has to be reset.
InitWalkers ==
    /\ today = 0
    /\ isoZ = TRUE
    /\ sub = TRUE
    /\ inventory \in [Ids -> {AbsentItem} \cup
                             {StoredItem(q, "automatic") : q \in 1..MaxQty}]
    /\ numListings = [automatic |-> CountRecords(inventory, "automatic"),
                      manual |-> CountRecords(inventory, "manual")]
    /\ orders \in [Ids -> {AbsentOrder, StoredOrder(0)}]
    /\ \E a \in {Cardinality({id \in Ids : orders[id].present})} :
         numOrders \in
              (IF a = 0 THEN {NoNumOrders} ELSE {}) \cup
              {[present |-> TRUE, resetDate |-> d, automatic |-> a, manual |-> 0,
                totalAutomatic |-> a, totalManual |-> 0] : d \in ResetDates}
    /\ metaFetched = NoFetched
    /\ ebayFetched = NoFetched
    /\ resp = 0
    /\ job = IdleJob
    /\ nSyncs = 0

NextWalkers ==
    \/ Tick
    \/ update_inventory
    \/ StartListingsWalker
    \/ ListingsCeiling
    \/ FetchListingsPage
    \/ PersistListings
    \/ update_orders
    \/ StartOrdersWalker
    \/ OrdersCeiling
    \/ FetchOrdersPage
    \/ PersistOrders
    \/ FetchRaises

SpecWalkers == InitWalkers /\ [][NextWalkers]_vars

\* the state the persistence step writes
Persisted == <<inventory, orders, numListings, numOrders, ebayFetched>>

\* C18: a listing that lacks a required field is skipped; the page it is on
\* is still processed to its end and the walker does not raise.
C18_MalformedSkipped ==
    [][(job.phase = "walking" /\ job.kind = inventory_key
        /\ job'.fetches = job.fetches + 1)
       => job'.ret # "raised"]_vars

\* ------------------------------------------------------------ routes/ebay.py
\* The endpoints /update-inventory and /update-orders of routes/ebay.py, which
\* run update_ebay_inventory and update_ebay_orders of ebay/handler_ebay.py in
\* the request.  These walkers count no iterations; MaxFetches caps the
\* iterations explored.
MaxFetches == 3

\* ebay/db_firebase.check_and_reset_automatic_date: on or after the reset date
\* the counts are cleared and written; before it the free slots are returned,
\* or a failure without an "error" key when none is left
ebay_check_and_reset_automatic_date(no, limit, t) ==
    IF no.resetDate # NoDate /\ t < no.resetDate
    THEN [success |-> no.automatic < limit, written |-> FALSE, numOrders |-> no,
          available |-> limit - no.automatic]
    ELSE [success |-> TRUE, written |-> TRUE, available |-> limit,
          numOrders |-> [no EXCEPT !.automatic = 0, !.manual = 0,
                                   !.resetDate = get_next_month_reset_date(t)]]

\* update_ebay_orders up to the call of fetch_ebay_orders (handler_ebay.py:
\* 271-295).  A failed check makes line 295 read reset_auto["error"], the
\* KeyError is caught and {"error": ...} returned.  With no slot available the
\* while loop of fetch_ebay_orders is not entered.
ebay_update_orders ==
    /\ ~Active(job)
    /\ nSyncs < MaxSyncs
    /\ nSyncs' = nSyncs + 1
    /\ LET user == add_and_update_store(numListings, numOrders, today)
           reset_auto == ebay_check_and_reset_automatic_date(user.numOrders,
                                                             LimitOrders, today)
       IN /\ numOrders' = IF reset_auto.written THEN reset_auto.numOrders ELSE numOrders
          /\ job' = [IdleJob EXCEPT
                        !.kind = sale_key, !.user = user, !.limit = LimitOrders,
                        !.at = today, !.slots = reset_auto.available,
                        !.phase = IF ~reset_auto.success THEN "failed"
                                  ELSE IF reset_auto.available > 0 THEN "walking"
                                  ELSE "walked"]
    /\ UNCHANGED <<today, isoZ, sub, numListings, inventory, orders,
                   metaFetched, ebayFetched, resp>>

\* ebay/db_firebase.add_orders as process_orders calls it, with a list of one
\* order: the order is set under its transactionId
ebay_add_orders(db, orders_list) ==
    [db EXCEPT ![orders_list[1].transactionId] = StoredOrder(orders_list[1].date)]

\* handler_ebay.process_orders over page_orders[i..]: every order is written
\* by add_orders as soon as it is handled (order_info is the record of
\* handle_new_order, sale.date being CreatedTime, or of handle_modified_order,
\* a copy of the stored one); set_current_no_orders of ebay/db_firebase.py
\* returns before its update (line 235).
RECURSIVE ebay_process_orders_from(_, _, _, _)
ebay_process_orders_from(page_orders, i, t, st) ==
    IF i > Len(page_orders) THEN st
    ELSE LET order == page_orders[i]
             db_transaction == st.db[order.TransactionID]
             order_info == [transactionId |-> order.TransactionID,
                            date |-> IF ~db_transaction.present THEN order.CreatedTime
                                     ELSE db_transaction.date]
             cur == was_order_created_in_current_month(order_info, t)
             st1 == [st EXCEPT !.db = ebay_add_orders(@, <<order_info>>),
                               !.writes = @ + 1]
             st2 == IF ~db_transaction.present
                    THEN [st1 EXCEPT !.new = IF cur THEN @ + 1 ELSE @,
                                     !.old = IF cur THEN @ ELSE @ + 1,
                                     !.slots = @ - 1]
                    ELSE st1
         IN IF st2.slots <= 0 THEN st2
            ELSE ebay_process_orders_from(page_orders, i + 1, t, st2)

\* One iteration of the while loop of handler_ebay.fetch_ebay_orders
\* (handler_ebay.py:349-376)
EbayFetchOrders ==
    /\ job.phase = "walking"
    /\ job.kind = sale_key
    /\ job.fetches < MaxFetches
    /\ \E page_orders \in OrderPages(today), has_more_orders \in BOOLEAN :
         LET r == ebay_process_orders_from(page_orders, 1, today,
                    [db |-> orders, new |-> job.new, old |-> job.old,
                     slots |-> job.slots, writes |-> job.writes])
             j1 == [job EXCEPT !.fetches = @ + 1]
         IN IF page_orders = <<>>
            THEN /\ job' = [j1 EXCEPT !.phase = "walked"]
                 /\ UNCHANGED orders
            ELSE /\ orders' = r.db
                 /\ job' = [j1 EXCEPT
                              !.new = r.new, !.old = r.old, !.slots = r.slots,
                              !.writes = r.writes,
                              !.phase = IF ~has_more_orders \/ r.slots <= 0
                                        THEN "walked" ELSE "walking",
                              !.page = IF ~has_more_orders \/ r.slots <= 0
                                       THEN @ ELSE @ + 1]
    /\ UNCHANGED <<today, isoZ, sub, numListings, numOrders, inventory,
                   metaFetched, ebayFetched, resp, nSyncs>>

\* The marketplace call of an iteration raises: fetch_ebay_orders and
\* fetch_ebay_listings catch it and return what they have (handler_ebay.py:
\* 192-201 and 380-383); neither caller looks at the error.
EbayFetchRaises ==
    /\ job.phase = "walking"
    /\ job.fetches < MaxFetches
    /\ job' = [job EXCEPT !.fetches = @ + 1, !.ret = "unavailable", !.phase = "walked"]
    /\ UNCHANGED <<today, isoZ, sub, numListings, numOrders, inventory, orders,
                   metaFetched, ebayFetched, resp, nSyncs>>

\* update_ebay_orders after fetch_ebay_orders returned (handler_ebay.py:309-313)
EbaySetOrdersFetched ==
    /\ job.phase = "walked"
    /\ job.kind = sale_key
    /\ ebayFetched' = set_last_fetched_date(ebayFetched, sale_key, job.at)
    /\ job' = [job EXCEPT !.phase = "done"]
    /\ UNCHANGED <<today, isoZ, sub, numListings, numOrders, inventory, orders,
                   metaFetched, resp, nSyncs>>

\* update_ebay_inventory up to the call of fetch_ebay_listings
\* (handler_ebay.py:55-64)
ebay_update_inventory ==
    /\ ~Active(job)
    /\ nSyncs < MaxSyncs
    /\ nSyncs' = nSyncs + 1
    /\ job' = [IdleJob EXCEPT
                  !.kind = inventory_key, !.limit = LimitListings, !.at = today,
                  !.user = add_and_update_store(numListings, numOrders, today),
                  !.phase = "walking"]
    /\ UNCHANGED <<today, isoZ, sub, numListings, numOrders, inventory, orders,
                   metaFetched, ebayFetched, resp>>

\* The for loop of handler_ebay.fetch_ebay_listings (handler_ebay.py:143-178)
\* over items[1..i], from the last item to the first.  A new listing is passed
\* over when the plan is full, a zero-quantity listing always; a listing
\* without SellingStatus raises KeyError.
RECURSIVE ebay_listings_from(_, _, _, _, _, _)
ebay_listings_from(items, i, db_listings_map, automatic, limit, st) ==
    IF i = 0 THEN st
    ELSE LET item == items[i]
             db_listing == db_listings_map[item.ItemID]
             full == ~db_listing.present /\ automatic + st.new >= limit
             st1 == IF ~db_listing.present /\ ~full THEN [st EXCEPT !.new = @ + 1]
                    ELSE st
             listing_data == ListingItem(item)
         IN IF full
            THEN ebay_listings_from(items, i - 1, db_listings_map, automatic, limit, st)
            ELSE IF item.QuantityAvailable = 0
            THEN ebay_listings_from(items, i - 1, db_listings_map, automatic, limit, st1)
            ELSE IF ~item.SellingStatus THEN [st1 EXCEPT !.ret = "raised"]
            ELSE ebay_listings_from(items, i - 1, db_listings_map, automatic, limit,
                    IF check_for_listing_changes(listing_data, db_listing)
                    THEN [st1 EXCEPT !.items = Append(@, listing_data)]
                    ELSE st1)

\* One iteration of the `while True` loop of handler_ebay.fetch_ebay_listings
\* (handler_ebay.py:116-190).  last_page stands for a missing
\* PaginationResult or `page >= int(total_pages)`.
EbayFetchListings ==
    /\ job.phase = "walking"
    /\ job.kind = inventory_key
    /\ job.fetches < MaxFetches
    /\ \E items \in ListingPages, last_page \in BOOLEAN :
         LET r == ebay_listings_from(items, Len(items), inventory,
                    job.user.numListings.automatic, job.limit,
                    [items |-> job.items, new |-> job.new, ret |-> ""])
         IN job' = [job EXCEPT
                      !.fetches = @ + 1, !.items = r.items, !.new = r.new,
                      !.ret = r.ret,
                      !.phase = IF items = <<>> \/ last_page \/ r.ret = "raised"
                                THEN "walked" ELSE "walking",
                      !.page = IF items = <<>> \/ last_page \/ r.ret = "raised"
                               THEN @ ELSE @ + 1]
    /\ UNCHANGED <<today, isoZ, sub, numListings, numOrders, inventory, orders,
                   metaFetched, ebayFetched, resp, nSyncs>>

\* ebay/db_firebase.add_listings: every listing is set under its itemId
RECURSIVE add_listings(_, _, _)
add_listings(db, listings, k) ==
    IF k = 0 THEN db
    ELSE [add_listings(db, listings, k - 1) EXCEPT
            ![listings[k].itemId] = StoredItem(listings[k].quantity, "automatic")]

\* update_ebay_inventory after fetch_ebay_listings returned (handler_ebay.py:
\* 65-84)
EbayPersistListings ==
    /\ job.phase = "walked"
    /\ job.kind = inventory_key
    /\ job' = [job EXCEPT !.phase = "done",
                          !.writes = IF job.items = <<>> THEN @ ELSE Len(job.items)]
    /\ IF job.items = <<>>
       THEN UNCHANGED <<inventory, ebayFetched, numListings>>
       ELSE /\ inventory' = add_listings(inventory, job.items, Len(job.items))
            /\ ebayFetched' = set_last_fetched_date(ebayFetched, inventory_key, today)
            /\ numListings' = set_current_no_listings(
                                  job.user.numListings.automatic, job.new,
                                  job.user.numListings.manual)
    /\ UNCHANGED <<today, isoZ, sub, numOrders, orders, metaFetched, resp, nSyncs>>

InitEbayRoute ==
    /\ today = 0
    /\ isoZ = TRUE
    /\ sub = TRUE
    /\ inventory \in [Ids -> {AbsentItem} \cup
                             {StoredItem(q, "automatic") : q \in 1..MaxQty}]
    /\ numListings = [automatic |-> CountRecords(inventory, "automatic"),
                      manual |-> CountRecords(inventory, "manual")]
    /\ orders \in [Ids -> {AbsentOrder, StoredOrder(0)}]
    /\ \E a \in {Cardinality({id \in Ids : orders[id].present})} :
         numOrders \in
              (IF a = 0 THEN {NoNumOrders} ELSE {}) \cup
              {[present |-> TRUE, resetDate |-> d, automatic |-> a, manual |-> 0,
                totalAutomatic |-> a, totalManual |-> 0] : d \in ResetDates}
    /\ metaFetched = NoFetched
    /\ ebayFetched = NoFetched
    /\ resp = 0
    /\ job = IdleJob
    /\ nSyncs = 0

NextEbayRoute ==
    \/ ebay_update_orders
    \/ EbayFetchOrders
    \/ EbaySetOrdersFetched
    \/ ebay_update_inventory
    \/ EbayFetchListings
    \/ EbayPersistListings
    \/ EbayFetchRaises

SpecEbayRoute == InitEbayRoute /\ [][NextEbayRoute]_vars

\* C17: a walker fetches at most MAX_WHILE_LOOP_DEPTH pages; a walker that
\* comes back for one more page fails, and nothing is persisted by that step.
C17_BoundedPagination ==
    [][/\ job'.fetches <= MaxDepth
       /\ (job.phase = "walking" /\ job.fetches = MaxDepth)
            => /\ job'.phase = "failed"
               /\ job'.writes = job.writes
               /\ Persisted' = Persisted]_vars

\* C19: once a marketplace fetch of a sync has failed, that sync fetches no
\* further page and the stored lastFetchedDate of neither level is written
\* (the eBay walkers return no offset, so none is ever stored).
C19_UpstreamUnavailable ==
    [][job'.ret = "unavailable"
       => /\ job.ret = "unavailable" => job'.fetches = job.fetches
          /\ ebayFetched' = ebayFetched
          /\ metaFetched' = metaFetched]_vars

\* StoreMeta and the quota counters
MetaAndCounters == <<metaFetched, ebayFetched, numListings, numOrders>>

C21_FireAndForget ==
    [][/\ nSyncs' # nSyncs
           => /\ job'.phase = "scheduled"
                   => /\ resp' = 200
                      /\ job'.fetches = 0
                      /\ job'.writes = 0
                      /\ Persisted' = Persisted
              /\ job'.phase = "rejected" => resp' = 500
              /\ resp' = 500 => job'.phase = "rejected"
       /\ nSyncs' = nSyncs
           => /\ resp' = resp
              /\ job.phase \in {"rejected", "disabled"} => job' = job]_vars

\* a background sync has failed after its caller was answered success
C21_Witness ==
    /\ job.phase = "failed"
    /\ resp = 200
    /\ nSyncs > 0

\* ------------------------------------------------------------ overlapping syncs
\* Two requests of POST /orders for one user.  Each background task is run by
\* asyncio.to_thread in a thread of its own (routes/update.py:122-136) and no
\* lock is taken from the pre-flight to update_db, so the second request can
\* arrive, and the steps of the two tasks interleave, at any point.
RaceIds == 1..(MaxId + 1)

RaceOrders == [TransactionID : RaceIds, CreatedTime : {0}]

RaceOrderPages ==
    {<<>>} \cup {<<o>> : o \in RaceOrders}
           \cup ({<<o1, o2>> : o1, o2 \in RaceOrders} \ {<<o, o>> : o \in RaceOrders})

\* the task that is not running, without its own reference to the other one
Suspended(j) == <<[j EXCEPT !.other = <<>>]>>

\* update_orders of routes/update.py called while the task of an earlier
\* request is still running: the same pre-flight, on the counters stored now
OverlappingUpdateOrders ==
    /\ Active(job)
    /\ job.kind = sale_key
    /\ job.other = <<>>
    /\ nSyncs < MaxSyncs
    /\ nSyncs' = nSyncs + 1
    /\ LET res == fetch_and_check_user(sale_key, numListings, numOrders, sub,
                                       today, isoZ, TRUE)
           answer == answer_without_waiting(res)
       IN /\ resp' = answer.status
          /\ job' = [IdleJob EXCEPT
                        !.phase = IF answer.scheduled THEN "scheduled"
                                  ELSE "rejected",
                        !.kind = sale_key,
                        !.user = res.user,
                        !.limit = res.limit,
                        !.raised = res.raised,
                        !.at = today,
                        !.other = Suspended(job)]
    /\ UNCHANGED <<today, isoZ, sub, numListings, numOrders, inventory, orders,
                   metaFetched, ebayFetched>>

\* the scheduler runs the other thread
Switch ==
    /\ job.other # <<>>
    /\ job' = [job.other[1] EXCEPT !.other = Suspended(job)]
    /\ UNCHANGED <<today, isoZ, sub, numListings, numOrders, inventory, orders,
                   metaFetched, ebayFetched, resp, nSyncs>>

RaceFetchOrdersPage == FetchOrdersPageFrom(RaceOrderPages)

\* a user with a subscription whose stored orders are all counted and who has
\* synchronised orders before
InitRace ==
    /\ today = 0
    /\ isoZ = TRUE
    /\ sub = TRUE
    /\ inventory = [id \in Ids |-> AbsentItem]
    /\ numListings = [automatic |-> 0, manual |-> 0]
    /\ orders \in [RaceIds -> {AbsentOrder, StoredOrder(0)}]
    /\ Cardinality({id \in RaceIds : orders[id].present}) \in 1..LimitOrders
    /\ numOrders = [present |-> TRUE, resetDate |-> DaysPerMonth,
                    automatic |-> Cardinality({id \in RaceIds : orders[id].present}),
                    manual |-> 0,
                    totalAutomatic |-> Cardinality({id \in RaceIds : orders[id].present}),
                    totalManual |-> 0]
    /\ metaFetched = [NoFetched EXCEPT ![sale_key] = 0]
    /\ ebayFetched = NoFetched
    /\ resp = 0
    /\ job = IdleJob
    /\ nSyncs = 0

NextRace ==
    \/ update_orders
    \/ OverlappingUpdateOrders
    \/ Switch
    \/ StartOrdersWalker
    \/ OrdersCeiling
    \/ RaceFetchOrdersPage
    \/ PersistOrders
    \/ FetchRaises

SpecRace == InitRace /\ [][NextRace]_vars

\* both tasks of two overlapping syncs have finished their persistence step,
\* having read the same counters in their pre-flights
BothPersisted ==
    /\ job.other # <<>>
    /\ job.phase = "done"
    /\ job.other[1].phase = "done"
    /\ job.kind = sale_key
    /\ job.other[1].kind = sale_key
    /\ job.writes > 0
    /\ job.other[1].writes > 0
    /\ job.user.numOrders = job.other[1].user.numOrders

KeepStatuses == {"Active", "InProcess", "Completed", "Shipped"}

\* the statuses should_remove_order discards (src/src/handler_ebay.py:450)
DiscardStatuses == {"Cancelled", "Inactive", "Invalid"}

\* C23: once a sync has processed an upstream order that carries a refund and
\* is not in a keep status, no record of that order is in the order store,
\* whether the order was stored before or not; and on a first sync (no
\* lastFetchedDate yet) no record is created for an order whose status is
\* Cancelled, Inactive or Invalid.
C23_SkipRemove ==
    [][/\ (/\ job'.phase \in {"new", "modified"}
           /\ job'.order.Refund
           /\ job'.order.OrderStatus \notin KeepStatuses)
              => ~orders'[job'.order.TransactionID].present
       /\ (/\ job'.phase = "new"
           /\ metaFetched[sale_key] = NoDate
           /\ job'.order.OrderStatus \in DiscardStatuses)
              => ~orders'[job'.order.TransactionID].present]_vars

\* ------------------------------------------------------------ order enrichment
\* handler.get_listing_for_order(db, uid, item_id, oauth_token): the listing is
\* read with retrieve_item, or fetched from the marketplace when it is not
\* stored, and its purchase block is built on the copy read; nothing is
\* written back.  found says whether the store had the listing, inventory is
\* the inventory collection after the call.
get_listing_for_order(db_inventory, item_id) ==
    [found |-> db_inventory[item_id].present, inventory |-> db_inventory]

MaxTax == 1

\* the raw order o with the tax the marketplace collected on it
\* (Transaction.Taxes.TotalTaxAmount), a part of AmountPaid
WithTax(o, tax) ==
    [f \in DOMAIN o \cup {"TaxAmount"} |-> IF f = "TaxAmount" THEN tax ELSE o[f]]

\* the raw orders of this part: one title, one shipping date, no list of
\* shipping options, with and without tax
EnrichOrders ==
    {WithTax(o, tax) :
        o \in {r \in RawOrders : /\ r.ShippingServiceOptions.kind # "list"
                                  /\ r.Title = "a"
                                  /\ r.ShippedTime = NoDate},
        tax \in 0..MaxTax}

\* process_orders on one transaction that retrieve_item does not find
\* (handler.py:385-407), the transaction being a sale of listing item_id, and
\* the upsert of its record
EnrichNewOrder ==
    \E order \in EnrichOrders, item_id \in Ids :
        /\ ~orders[order.TransactionID].present
        /\ LET listing == get_listing_for_order(inventory, item_id)
           IN /\ inventory' = listing.inventory
              /\ job' = [phase |-> "new", order |-> order,
                         db_transaction |-> AbsentOrder, itemId |-> item_id,
                         found |-> listing.found]
        /\ orders' = [orders EXCEPT ![order.TransactionID] = new_order_record(order)]
        /\ UNCHANGED <<today, isoZ, sub, numListings, numOrders,
                       metaFetched, ebayFetched, resp, nSyncs>>

\* the same transaction seen again by a later sync (handler.py:409-416): the
\* modified path does not look the listing up
EnrichModifiedOrder ==
    \E order \in EnrichOrders :
        /\ orders[order.TransactionID].present
        /\ nSyncs < MaxRefetches
        /\ orders' = [orders EXCEPT ![order.TransactionID] =
                        modified_order_record(order, orders[order.TransactionID])]
        /\ job' = [job EXCEPT !.phase = "modified", !.order = order,
                              !.db_transaction = orders[order.TransactionID]]
        /\ nSyncs' = nSyncs + 1
        /\ UNCHANGED <<today, isoZ, sub, numListings, numOrders, inventory,
                       metaFetched, ebayFetched, resp>>

InitEnrich ==
    /\ today = 2
    /\ isoZ = TRUE
    /\ sub = TRUE
    /\ inventory \in [Ids -> {AbsentItem} \cup
                             {StoredItem(q, "automatic") : q \in 1..MaxQty}]
    /\ numListings = [automatic |-> CountRecords(inventory, "automatic"),
                      manual |-> 0]
    /\ orders = [id \in Ids |-> AbsentOrder]
    /\ numOrders = NoNumOrders
    /\ metaFetched = NoFetched
    /\ ebayFetched = NoFetched
    /\ resp = 0
    /\ job = NoRecordJob
    /\ nSyncs = 0

NextEnrich ==
    \/ EnrichNewOrder
    \/ EnrichModifiedOrder

SpecEnrich == InitEnrich /\ [][NextEnrich]_vars

\* C24: enriching a newly seen transaction whose listing is in the store
\* lowers the stored quantity of that listing by the quantity sold (a listing
\* sold out is removed), and seeing the transaction again in a later sync
\* leaves the inventory as it is.
C24_QuantityDecrement ==
    [][/\ (job'.phase = "new" /\ inventory[job'.itemId].present)
            => LET left == inventory[job'.itemId].quantity
                             - job'.order.QuantityPurchased
               IN IF left <= 0 THEN ~inventory'[job'.itemId].present
                  ELSE /\ inventory'[job'.itemId].present
                       /\ inventory'[job'.itemId].quantity = left
       /\ job'.phase = "modified" => inventory' = inventory]_vars

\* ------------------------------------------------------------ sale identity
\* a stored record with the fields a later sync may update blanked
IdentityOf(record) ==
    [record EXCEPT !.status = "", !.shipping = <<>>, !.refund = NoRefund,
                   !.additionalFees = 0, !.price = 0, !.quantity = 0,
                   !.lastModified = 0]

\* C25: the record the modified-order path stores for an already-stored order
\* equals the record stored before in every field other than status, shipping,
\* refund, additionalFees, sale.price, sale.quantity and lastModified,
\* whatever the re-fetched order contains.
C25_SaleIdentityImmutable ==
    job.phase = "modified"
        => IdentityOf(orders[job.order.TransactionID]) = IdentityOf(job.db_transaction)

\* ------------------------------------------------------------ additional fees
\* C26: the additionalFees of the record stored for an order, by the new-order
\* path or by the modified-order path, is 0 when the order is Cancelled and
\* otherwise the amount paid less unit price times quantity sold, less the
\* shipping fees, less the tax (all in pence).
C26_FinancialDerivation ==
    job.phase \in {"new", "modified"} =>
        LET order == job.order
            record == orders[order.TransactionID]
        IN record.additionalFees =
              IF order.OrderStatus = "Cancelled" THEN 0
              ELSE order.AmountPaid
                     - order.TransactionPrice * order.QuantityPurchased
                     - record.shipping.fees - order.TaxAmount

\* ------------------------------------------------------------ refund extraction
\* C27: the refund of the record stored for an order is non-null only if the
\* order status is Cancelled or CancelPending; it is the refund record when
\* the order is in one of those statuses and carries a refund payload, and
\* null when the payload is absent.
C27_RefundExtraction ==
    job.phase \in {"new", "modified"} =>
        LET order == job.order
            refund == orders[order.TransactionID].refund
        IN /\ refund.present => order.OrderStatus \in {"CancelPending", "Cancelled"}
           /\ (order.OrderStatus \in {"CancelPending", "Cancelled"} /\ order.Refund)
                 => refund.present
           /\ ~order.Refund => ~refund.present

\* ------------------------------------------------------------ returned records
\* C28: processing a further page keeps in the list the walker will return
\* every record the earlier pages of the same run put there, so that the list
\* handed to the caller holds the new and changed records of all the pages
\* 1..k and not only those of page k.
C28_AllPagesReturned ==
    [][(/\ job.phase = "walking"
        /\ job'.depth = job.depth + 1
        /\ job'.phase \in {"walking", "walked"})
       => \A i \in 1..Len(job.items) :
             \E k \in 1..Len(job'.items) : job'.items[k] = job.items[i]]_vars

\* ------------------------------------------------------------ slot accounting
\* the automatic count a walker run starts from
CurrentAutomaticCount(j) ==
    IF j.kind = inventory_key THEN j.user.numListings.automatic
    ELSE j.user.numOrders.automatic

SlotsStartAtLimitMinusCount ==
    (job.phase = "scheduled" /\ job'.phase \in {"walking", "walked"})
        => job'.slots = job'.limit - CurrentAutomaticCount(job)

SlotsFallByNewRecords ==
    (job.phase = "walking" /\ job'.phase \in {"walking", "walked"})
        => /\ job'.slots <= job.slots
           /\ job.kind = sale_key
                => job.slots - job'.slots
                     = (job'.new + job'.old) - (job.new + job.old)

SlotsNeverNegative == job'.phase \in {"walking", "walked"} => job'.slots >= 0

\* C29: the remaining slots of a walker run start at limit minus the current
\* automatic count, fall by one for each record classified new and by nothing
\* else, and are never below 0.
C29_SlotAccounting ==
    [][/\ SlotsStartAtLimitMinusCount
       /\ SlotsFallByNewRecords
       /\ SlotsNeverNegative]_vars

\* ------------------------------------------------------------ walker frame
\* the items and the counters of the store
ItemsAndCounters == <<inventory, orders, numListings, numOrders>>

\* C30: no step of a walker run, from its start to the step that hands over
\* to the persistence step or aborts, upserts or deletes an item or writes a
\* counter; an aborted run therefore leaves items and counters as they were.
C30_WalkerFrame ==
    [][job.phase \in {"scheduled", "walking"}
       => ItemsAndCounters' = ItemsAndCounters]_vars

\* ------------------------------------------------------------ classification
\* process_listings on pages whose listings carry more of the compared fields,
\* and a store that holds the records built from them.
ListingTitles == {"a", "b"}
ListingTypes == {"FixedPriceItem", "Chinese"}

RichListings ==
    [ItemID : Ids, QuantityAvailable : Quantities, SellingStatus : {TRUE},
     Title : ListingTitles, GalleryURL : {"u"}, ListingType : ListingTypes]

RichPages ==
    {<<>>} \cup {<<l>> : l \in RichListings}
           \cup {p \in RichListings \X RichListings : p[1].ItemID # p[2].ItemID}

\* a stored document of an item: the item itself
StoredListing(item) ==
    [f \in DOMAIN item \cup {"present", "recordType"} |->
        IF f = "present" THEN TRUE
        ELSE IF f = "recordType" THEN "automatic"
        ELSE item[f]]

\* the stores a page is classified against: a listing is absent or a document
\* of the shape of an item
StoredListings ==
    [Ids -> {AbsentItem} \cup {StoredListing(ListingItem(l)) : l \in RichListings}]

ClassifyStores == {inv \in StoredListings :
                     \A id \in Ids : inv[id].present => inv[id].itemId = id}

NoClassifyJob == [phase |-> "idle", page |-> <<>>, db |-> <<>>, items |-> <<>>, ret |-> ""]

\* one call of process_listings (handler.py:125-191) with available_slots free
\* slots, and the removals it makes
ClassifyPage ==
    /\ job.phase = "idle"
    /\ \E listings \in RichPages \ {<<>>}, available_slots \in {1, PageLen + 1} :
         LET r == process_listings(listings, inventory, available_slots)
         IN /\ job' = [phase |-> "classified", page |-> listings, db |-> inventory,
                       items |-> r.items, ret |-> r.ret]
            /\ inventory' = remove_items(inventory, r.removed)
    /\ nSyncs' = nSyncs + 1
    /\ UNCHANGED <<today, isoZ, sub, numListings, numOrders, orders,
                   metaFetched, ebayFetched, resp>>

InitClassify ==
    /\ today = 0
    /\ isoZ = TRUE
    /\ sub = TRUE
    /\ inventory \in ClassifyStores
    /\ numListings = [automatic |-> 0, manual |-> 0]
    /\ orders = [id \in Ids |-> AbsentOrder]
    /\ numOrders = NoNumOrders
    /\ metaFetched = NoFetched
    /\ ebayFetched = NoFetched
    /\ resp = 0
    /\ job = NoClassifyJob
    /\ nSyncs = 0

NextClassify == ClassifyPage

SpecClassify == InitClassify /\ [][NextClassify]_vars

\* whether process_listings returned the item built for listing i of the page
InReturnedList(i) ==
    \E k \in 1..Len(job.items) : job.items[k] = ListingItem(job.page[i])

\* listing i of the page is not in the store
IsNewListing(i) == ~job.db[job.page[i].ItemID].present

\* listing i of the page is in the store and a compared field of it differs
IsChangedListing(i) ==
    LET item == ListingItem(job.page[i])
        db_listing == job.db[job.page[i].ItemID]
    IN /\ db_listing.present
       /\ \/ item.itemId # db_listing.itemId
          \/ item.name # db_listing.name
          \/ item.quantity # db_listing.quantity
          \/ item.image # db_listing.image

\* C31 as stated: of a page processed to its end, the listings in the list
\* returned for persistence are those not in the store (new) and those in the
\* store with a compared field that differs (changed); an unchanged listing is
\* not in it.
C31_Classification ==
    (job.phase = "classified" /\ job.ret = "ret4")
        => \A i \in 1..Len(job.page) :
              InReturnedList(i) <=> (IsNewListing(i) \/ IsChangedListing(i))

\* C31 amended: as above, but a listing that is not in the store and has
\* quantity 0 is not in the list either.
C31_ClassificationNonZero ==
    (job.phase = "classified" /\ job.ret = "ret4")
        => \A i \in 1..Len(job.page) :
              InReturnedList(i) <=>
                 \/ IsNewListing(i) /\ job.page[i].QuantityAvailable # 0
                 \/ IsChangedListing(i)

\* a page of two stored listings: one differs in its title alone and is
\* returned, the other differs in nothing that is compared and is not
C31_Witness ==
    /\ job.phase = "classified"
    /\ job.ret = "ret4"
    /\ Len(job.page) = 2
    /\ job.db[job.page[1].ItemID].present
    /\ job.db[job.page[2].ItemID].present
    /\ ListingItem(job.page[1]).name # job.db[job.page[1].ItemID].name
    /\ ListingItem(job.page[1]).quantity = job.db[job.page[1].ItemID].quantity
    /\ InReturnedList(1)
    /\ ListingItem(job.page[2]).ebay # job.db[job.page[2].ItemID].ebay
    /\ ~IsChangedListing(2)
    /\ ~InReturnedList(2)

\* ------------------------------------------------------- existence lookups
\* The queries a page costs: get_items_by_ids for a page of listings
\* (db_firebase.py:342-384, called at handler.py:135-137) and retrieve_item
\* for the transactions of a page of orders (handler.py:384-389).
MaxLookup == 21
batch_size == 10

LookupIds == 1..MaxLookup

\* pages of distinct ids: the ids a..b in order
LookupPages ==
    {<<>>} \cup {[i \in 1..(b - a + 1) |-> a + i - 1] :
                    a \in LookupIds, b \in LookupIds}

\* stores over LookupIds: the stored ids are a prefix, the even or the odd ids
LookupStoredSets ==
    {1..k : k \in 0..MaxLookup}
        \cup {{id \in LookupIds : id % 2 = 0}, {id \in LookupIds : id % 2 = 1}}

LookupStore(stored) ==
    [id \in LookupIds |->
        IF id \in stored
        THEN [present |-> TRUE, quantity |-> 1, recordType |-> "automatic"]
        ELSE AbsentItem]

\* db.get_items_by_ids: one `in` query per chunk of batch_size ids; ids is the
\* key set of item_map
RECURSIVE get_items_by_ids_from(_, _, _, _)
get_items_by_ids_from(store, item_ids, i, acc) ==
    IF i > Len(item_ids) THEN acc
    ELSE LET last == IF i + batch_size - 1 < Len(item_ids)
                     THEN i + batch_size - 1 ELSE Len(item_ids)
             batch_item_ids == {item_ids[k] : k \in i..last}
             docs == {id \in DOMAIN store :
                        store[id].present /\ id \in batch_item_ids}
         IN get_items_by_ids_from(store, item_ids, i + batch_size,
                [queries |-> acc.queries + 1, ids |-> acc.ids \cup docs])

get_items_by_ids(store, item_ids) ==
    get_items_by_ids_from(store, item_ids, 1, [queries |-> 0, ids |-> {}])

\* the lookups of process_orders: retrieve_item for each transaction in turn,
\* until the page ends or the slots run out
RECURSIVE retrieve_items_from(_, _, _, _, _)
retrieve_items_from(store, item_ids, i, available_slots, acc) ==
    IF i > Len(item_ids) THEN acc
    ELSE LET found == store[item_ids[i]].present
             slots1 == IF found THEN available_slots ELSE available_slots - 1
             acc1 == [queries |-> acc.queries + 1,
                      ids |-> IF found THEN acc.ids \cup {item_ids[i]}
                              ELSE acc.ids]
         IN IF slots1 <= 0 THEN acc1
            ELSE retrieve_items_from(store, item_ids, i + 1, slots1, acc1)

NoLookupJob == [phase |-> "idle", kind |-> "", ids |-> <<>>, queries |-> 0, found |-> {}]

\* process_listings, steps 1 and 2 (handler.py:131-137)
LookupListings ==
    /\ job.phase = "idle"
    /\ \E item_ids \in LookupPages :
         LET r == get_items_by_ids(inventory, item_ids)
         IN job' = [phase |-> "looked", kind |-> "inventory", ids |-> item_ids,
                    queries |-> r.queries, found |-> r.ids]
    /\ UNCHANGED <<today, isoZ, sub, inventory, numListings, numOrders, orders,
                   metaFetched, ebayFetched, resp, nSyncs>>

\* process_orders, step 1 of every transaction (handler.py:384-389), with
\* slots for the whole page
LookupOrders ==
    /\ job.phase = "idle"
    /\ \E item_ids \in LookupPages :
         LET r == retrieve_items_from(orders, item_ids, 1, MaxLookup + 1,
                                      [queries |-> 0, ids |-> {}])
         IN job' = [phase |-> "looked", kind |-> "orders", ids |-> item_ids,
                    queries |-> r.queries, found |-> r.ids]
    /\ UNCHANGED <<today, isoZ, sub, inventory, numListings, numOrders, orders,
                   metaFetched, ebayFetched, resp, nSyncs>>

InitLookup ==
    /\ today = 0
    /\ isoZ = TRUE
    /\ sub = TRUE
    /\ \E stored \in LookupStoredSets :
         /\ inventory = LookupStore(stored)
         /\ orders = LookupStore(stored)
    /\ numListings = [automatic |-> 0, manual |-> 0]
    /\ numOrders = NoNumOrders
    /\ metaFetched = NoFetched
    /\ ebayFetched = NoFetched
    /\ resp = 0
    /\ job = NoLookupJob
    /\ nSyncs = 0

NextLookup == LookupListings \/ LookupOrders

SpecLookup == InitLookup /\ [][NextLookup]_vars

\* ceil(n / batch_size)
LookupCeiling(n) == (n + batch_size - 1) \div batch_size

\* the ids of the page that are stored
StoredPageIds ==
    {job.ids[k] : k \in 1..Len(job.ids)} \cap
        {id \in LookupIds : (IF job.kind = "inventory" THEN inventory
                             ELSE orders)[id].present}

\* C32: a page of n records costs at most ceil(n / 10) existence queries,
\* whether it is a page of listings or of orders, and the lookup finds exactly
\* the ids of the page that are stored.
C32_BatchedLookups ==
    job.phase = "looked"
        => /\ job.queries <= LookupCeiling(Len(job.ids))
           /\ job.found = StoredPageIds

\* the same for pages of listings alone
InventoryLookupsBatched ==
    (job.phase = "looked" /\ job.kind = "inventory")
        => /\ job.queries = LookupCeiling(Len(job.ids))
           /\ job.found = StoredPageIds

\* a page of orders costs one query for every transaction
OrderLookupsOneByOne ==
    (job.phase = "looked" /\ job.kind = "orders")
        => job.queries = Len(job.ids)

\* ------------------------------------------------------------ page protocol
\* the smaller of the provider's page cap and the limit
MinPageSize(limit, cap) == IF cap <= limit THEN cap ELSE limit

\* a step in which a walker sends a request to the marketplace
SendsRequest == Len(job'.requests) = Len(job.requests) + 1

MaxStock == 3
MaxSold == 3

\* the listing document after the call, and what the call returns
decrease_listing_quantity(inv, listing_id, quantity) ==
    IF ~inv[listing_id].present
    THEN [inv |-> inv, success |-> FALSE]
    ELSE LET current_quantity == inv[listing_id].quantity
             new_quantity == IF current_quantity - quantity > 0
                             THEN current_quantity - quantity ELSE 0
         IN IF current_quantity - quantity = 0
            THEN [inv |-> [inv EXCEPT ![listing_id] = AbsentItem], success |-> TRUE]
            ELSE [inv |-> [inv EXCEPT ![listing_id].quantity = new_quantity],
                  success |-> TRUE]

NoDecreaseJob == [phase |-> "idle", listing_id |-> 0, quantity |-> 0, success |-> FALSE]

DecreaseListingQuantity ==
    /\ \E listing_id \in Ids, quantity \in 1..MaxSold :
         LET r == decrease_listing_quantity(inventory, listing_id, quantity)
         IN /\ inventory' = r.inv
            /\ job' = [phase |-> "decreased", listing_id |-> listing_id,
                       quantity |-> quantity, success |-> r.success]
    /\ UNCHANGED <<today, isoZ, sub, numListings, numOrders, orders,
                   metaFetched, ebayFetched, resp, nSyncs>>

InitDecrease ==
    /\ today = 0
    /\ isoZ = TRUE
    /\ sub = TRUE
    /\ inventory \in [Ids -> {AbsentItem} \cup
                             {StoredItem(q, "automatic") : q \in 1..MaxStock}]
    /\ numListings = [automatic |-> 0, manual |-> 0]
    /\ orders = [id \in Ids |-> AbsentOrder]
    /\ numOrders = NoNumOrders
    /\ metaFetched = NoFetched
    /\ ebayFetched = NoFetched
    /\ resp = 0
    /\ job = NoDecreaseJob
    /\ nSyncs = 0

NextDecrease == DecreaseListingQuantity

SpecDecrease == InitDecrease /\ [][NextDecrease]_vars

\* C34: whatever calls of decrease_listing_quantity were made, every stored
\* listing has a quantity above 0: a listing whose quantity is used up, also
\* by a sale of more than is stored, is deleted.
C34_QuantityExhaustion ==
    \A id \in Ids : inventory[id].present => inventory[id].quantity > 0

\* a sale of exactly what is stored deletes the listing
ExactSaleDeletes ==
    [][\A id \in Ids :
         (inventory[id].present /\ job'.listing_id = id
             /\ job'.quantity = inventory[id].quantity)
            => ~inventory'[id].present]_vars

\* ------------------------------------------------------------ no slots left
\* a walker is started, its count of the store is read without an error, and
\* no slot is left
StartsWithoutSlots ==
    /\ job.phase = "scheduled"
    /\ job'.phase # "scheduled"
    /\ ~fetch_user_inventory_and_orders_count(job.user, today, isoZ).raised
    /\ job'.slots <= 0

\* the walker returns without a fetch, with no record and no new record
ReturnedEmpty(j) ==
    /\ j.phase = "walked"
    /\ j.requests = <<>>
    /\ j.fetches = 0
    /\ j.items = <<>>
    /\ j.new = 0

\* C35: a walker that is started with no slot left sends no request to the
\* marketplace and returns an empty list and a new count of 0.
C35_NoSlotsNoOp ==
    [][StartsWithoutSlots => ReturnedEmpty(job')]_vars

\* ------------------------------------------------------- counters and store
\* The inventory endpoint of a user whose store holds listings the
\* synchronisation wrote (recordType automatic) and listings entered by hand
\* (recordType manual), each counted by its counter.
RecordTypes == {"automatic", "manual"}

InitManual ==
    /\ today = 0
    /\ isoZ = TRUE
    /\ sub = TRUE
    /\ inventory \in [Ids -> {AbsentItem} \cup
                             {StoredItem(q, rt) : q \in 1..MaxQty, rt \in RecordTypes}]
    /\ numListings = [automatic |-> CountRecords(inventory, "automatic"),
                      manual |-> CountRecords(inventory, "manual")]
    /\ numOrders = NoNumOrders
    /\ orders = [id \in Ids |-> AbsentOrder]
    /\ metaFetched = NoFetched
    /\ ebayFetched = NoFetched
    /\ resp = 0
    /\ job = IdleJob
    /\ nSyncs = 0

SpecManual == InitManual /\ [][NextInventory]_vars

CounterMatchesStore ==
    numListings.automatic = CountRecords(inventory, "automatic")

ReachesLimitTest ==
    /\ nSyncs' = nSyncs + 1
    /\ sub
    /\ job'.phase \in {"scheduled", "rejected"}
    /\ job'.raised \in {0, 400}

\* C38: the limit test of the pre-flight turns a request away exactly when the
\* automatic counter of the kind that is synchronised has reached the limit of
\* that kind: listings for an inventory sync, orders (after the lazy reset) for
\* an orders sync.
C38_GuardOnOwnCounter ==
    [][ReachesLimitTest
         => (job'.raised = 400
               <=> CountedAutomatic(job'.kind) >= fetch_users_limits(job'.kind))]_vars

=============================================================================
